---- MODULE Spec2Model ----
(***************************************************************************)
(* The orchestration core of viral-marketing-reporter: the SearchJob       *)
(* aggregate (domain/model.py), the in-memory repository                   *)
(* (infrastructure/repositories.py, domain/repositories.py), the           *)
(* synchronous-recursive message bus (infrastructure/message_bus.py), the  *)
(* handlers (application/handlers.py) and the wiring of bootstrap.py.      *)
(*                                                                         *)
(* Python values are modelled as follows.  An Optional[X] is a sequence of *)
(* length at most one (<<>> is None).  A uuid is a positive integer.  An   *)
(* object reference is an index into heap.  A coroutine (an asyncio task)  *)
(* is a stack of frames, one per active call, with its pending exception.  *)
(***************************************************************************)
EXTENDS Integers, Sequences, FiniteSets, TLC

\* ------------------------------------------------------------------ bounds
\* Largest number of task DTOs in one CreateSearchCommand.
MaxTasks == 2
\* Number of CreateSearchCommands (job ids) the operator may submit.
MaxJobs == 2
\* Largest number of tasks over all the commands submitted.
MaxTotalTasks == 2
\* Number of ExecuteSearchTaskCommands dispatched side by side in SpecConc.
MaxDispatch == 2
\* Number of method calls made on the aggregate in SpecAgg.
MaxOps == 4

\* ------------------------------------------------------- domain/model.py
\* TaskStatus and JobStatus members are named as in the source.
TaskStatus == {"PENDING", "FOUND", "NOT_FOUND", "ERROR"}
JobStatus == {"PENDING", "RUNNING", "COMPLETED", "FAILED"}

\* TaskStatus.value: the member's label (the source's Korean labels, romanised).
TaskStatusValue(s) ==
    CASE s = "PENDING" -> "daegi"
      [] s = "FOUND" -> "poham"
      [] s = "NOT_FOUND" -> "mipoham"
      [] s = "ERROR" -> "ereo"

\* JobStatus.value
JobStatusValue(s) ==
    CASE s = "PENDING" -> "daegi"
      [] s = "RUNNING" -> "silhaeng jung"
      [] s = "COMPLETED" -> "wanlyo"
      [] s = "FAILED" -> "silpae"

\* SearchResult(found_posts, screenshot): the values a platform capability returns.
SearchResults ==
    { [found_posts |-> <<>>, screenshot |-> <<>>],
      [found_posts |-> <<"url1">>, screenshot |-> <<"shot.png">>] }

\* The exceptions a platform capability raises: class and args[0] (absent for a
\* bare TimeoutError()).
CapabilityErrors ==
    { [cls |-> "TimeoutError", args |-> <<>>],
      [cls |-> "RuntimeError", args |-> <<"page changed">>] }

\* str(e) of an exception: its only argument, or the empty string without one.
StrOfException(e) == IF e.args = <<>> THEN "" ELSE e.args[1]

\* Events (domain/events.py); task_id 0 and status "" where the event has none.
SearchJobCreatedEvent(job_id) ==
    [type |-> "SearchJobCreated", job_id |-> job_id, task_id |-> 0, status |-> ""]
SearchJobStartedEvent(job_id) ==
    [type |-> "SearchJobStarted", job_id |-> job_id, task_id |-> 0, status |-> ""]
TaskCompletedEvent(task_id, job_id, status) ==
    [type |-> "TaskCompleted", job_id |-> job_id, task_id |-> task_id, status |-> status]
JobCompletedEvent(job_id) ==
    [type |-> "JobCompleted", job_id |-> job_id, task_id |-> 0, status |-> ""]

\* Keyword(text): the keyword of the n-th task DTO, n standing for its text.
Keyword(n) == [text |-> n]

\* SearchTask(...): a new task is Pending with neither result nor error message; the
\* task with the n-th uuid is the one built from the n-th DTO.
SearchTask(task_id) ==
    [task_id |-> task_id, keyword |-> Keyword(task_id), blog_posts_to_find |-> <<"url1">>,
     status |-> "PENDING", result |-> <<>>, error_message |-> <<>>]

\* An update_result that marks the task Found whatever the result holds.
UpdateResultAlwaysFound(task, result) ==
    [task EXCEPT !.status = "FOUND", !.result = <<result>>]

\* SearchTask.update_result
UpdateResult(task, result) ==
    [task EXCEPT !.status = IF result.found_posts # <<>> THEN "FOUND" ELSE "NOT_FOUND",
                 !.result = <<result>>]

\* SearchTask.mark_as_error
MarkAsError(task, message) ==
    [task EXCEPT !.status = "ERROR", !.error_message = <<message>>]

\* A create that records no event.
SearchJobCreateSilent(job_id, tasks) ==
    [job_id |-> job_id, status |-> "PENDING", tasks |-> tasks, events |-> <<>>]

\* SearchJob.create
SearchJobCreate(job_id, tasks) ==
    [job_id |-> job_id, status |-> "PENDING", tasks |-> tasks,
     events |-> <<SearchJobCreatedEvent(job_id)>>]

\* SearchJob.pull_events: the list returned, and the job left behind.
PulledEvents(j) == j.events

\* A pull_events that returns the list and does not clear it.
AfterPullEventsKept(j) == j

AfterPullEvents(j) == [j EXCEPT !.events = <<>>]

\* A start() that refuses only a Completed job.
StartRaisesWhenCompleted(j) == j.status = "COMPLETED"

\* A start() that checks nothing.
StartRaisesNever(j) == FALSE

\* SearchJob.start raises ValueError unless the job is Pending.
StartRaises(j) == j.status # "PENDING"

\* A start() that records no event.
StartSilent(j) == [j EXCEPT !.status = "RUNNING"]

\* SearchJob.start, past its check: Running, with a SearchJobStarted appended.
Start(j) ==
    [j EXCEPT !.status = "RUNNING",
              !.events = Append(@, SearchJobStartedEvent(j.job_id))]

\* A lookup that takes the first task whatever its id.
FindTaskByIdFirst(j, task_id) == IF j.tasks = <<>> THEN 0 ELSE 1

\* SearchJob._find_task_by_id: the position of the first task with that id, 0 for None.
FindTaskById(j, task_id) ==
    IF \E i \in 1..Len(j.tasks) : j.tasks[i].task_id = task_id
    THEN CHOOSE i \in 1..Len(j.tasks) :
            /\ j.tasks[i].task_id = task_id
            /\ \A k \in 1..(i - 1) : j.tasks[k].task_id # task_id
    ELSE 0

\* update_task_result that records the result and appends no event.
UpdateTaskResultNoEvent(j, task_id, result) ==
    LET i == FindTaskById(j, task_id) IN
    IF i = 0 THEN j
    ELSE [j EXCEPT !.tasks[i] = UpdateResult(j.tasks[i], result)]

\* SearchJob.update_task_result
UpdateTaskResult(j, task_id, result) ==
    LET i == FindTaskById(j, task_id) IN
    IF i = 0 THEN j
    ELSE LET t == UpdateResult(j.tasks[i], result) IN
         [j EXCEPT !.tasks[i] = t,
                   !.events = Append(@, TaskCompletedEvent(t.task_id, j.job_id,
                                                           TaskStatusValue(t.status)))]

\* update_task_error that records the error and appends no event.
UpdateTaskErrorNoEvent(j, task_id, error_message) ==
    LET i == FindTaskById(j, task_id) IN
    IF i = 0 THEN j
    ELSE [j EXCEPT !.tasks[i] = MarkAsError(j.tasks[i], error_message)]

\* SearchJob.update_task_error
UpdateTaskError(j, task_id, error_message) ==
    LET i == FindTaskById(j, task_id) IN
    IF i = 0 THEN j
    ELSE LET t == MarkAsError(j.tasks[i], error_message) IN
         [j EXCEPT !.tasks[i] = t,
                   !.events = Append(@, TaskCompletedEvent(t.task_id, j.job_id,
                                                           TaskStatusValue(t.status)))]

\* any(...) where the source has all(...).
SomeTaskLeftPending(j) == \E i \in 1..Len(j.tasks) : j.tasks[i].status # "PENDING"

\* all(t.status != TaskStatus.PENDING for t in self.tasks)
AllTasksLeftPending(j) == \A i \in 1..Len(j.tasks) : j.tasks[i].status # "PENDING"

\* check_if_completed without its test of the job's own status.
CheckIfCompletedUnguarded(j) ==
    IF AllTasksLeftPending(j)
    THEN [j EXCEPT !.status = "COMPLETED",
                   !.events = Append(@, JobCompletedEvent(j.job_id))]
    ELSE j

\* SearchJob.check_if_completed
CheckIfCompleted(j) ==
    IF j.status # "COMPLETED" /\ AllTasksLeftPending(j)
    THEN [j EXCEPT !.status = "COMPLETED",
                   !.events = Append(@, JobCompletedEvent(j.job_id))]
    ELSE j

\* ------------------------------------------------- application/commands.py
\* CreateSearchCommand(job_id, tasks): tasks is the number of TaskDTOs it carries.
CreateSearchCommand(job_id, n) ==
    [type |-> "CreateSearchCommand", job_id |-> job_id, task_id |-> 0, tasks |-> n]
ExecuteSearchTaskCommand(job_id, task_id) ==
    [type |-> "ExecuteSearchTaskCommand", job_id |-> job_id, task_id |-> task_id]

\* isinstance(message, Event), isinstance(message, Command)
IsEvent(m) ==
    m.type \in {"SearchJobCreated", "SearchJobStarted", "TaskCompleted", "JobCompleted"}
IsCommand(m) ==
    m.type \in {"CreateSearchCommand", "ExecuteSearchTaskCommand", "LogoutInstagramCommand"}

\* ------------------------------------------------------------ bootstrap.py
\* bus.register_command(...): the handler of a command type, <<>> when none is registered.
CommandHandlers(type) ==
    CASE type = "CreateSearchCommand" -> <<"CreateSearchCommandHandler">>
      [] type = "ExecuteSearchTaskCommand" -> <<"ExecuteSearchTaskCommandHandler">>
      [] OTHER -> <<>>

\* A wiring that leaves JobCompleted without its subscriber.
EventHandlersWithoutJobCompleted(type) ==
    CASE type = "SearchJobCreated" -> <<"SearchJobCreatedHandler">>
      [] type = "SearchJobStarted" -> <<"SearchJobStartedHandler">>
      [] type = "TaskCompleted" -> <<"TaskCompletedHandler">>
      [] OTHER -> <<>>

\* A wiring that subscribes SearchJobCreatedHandler twice.
EventHandlersCreatedTwice(type) ==
    CASE type = "SearchJobCreated" -> <<"SearchJobCreatedHandler", "SearchJobCreatedHandler">>
      [] type = "SearchJobStarted" -> <<"SearchJobStartedHandler">>
      [] type = "TaskCompleted" -> <<"TaskCompletedHandler">>
      [] type = "JobCompleted" -> <<"JobCompletedHandler">>
      [] OTHER -> <<>>

\* bus.subscribe_to_event(...): the handlers of an event type, in subscription order.
EventHandlers(type) ==
    CASE type = "SearchJobCreated" -> <<"SearchJobCreatedHandler">>
      [] type = "SearchJobStarted" -> <<"SearchJobStartedHandler">>
      [] type = "TaskCompleted" -> <<"TaskCompletedHandler">>
      [] type = "JobCompleted" -> <<"JobCompletedHandler">>
      [] OTHER -> <<>>

\* ------------------------------------------ infrastructure/message_bus.py
EventTypes == {"SearchJobCreated", "SearchJobStarted", "TaskCompleted", "JobCompleted"}

\* _event_handlers once bootstrap has run.
Bootstrapped == [type \in EventTypes |-> EventHandlers(type)]

\* InMemoryMessageBus.subscribe_to_event
SubscribeToEvent(handlers, type, h) == [handlers EXCEPT ![type] = Append(@, h)]

CommandTypes == {"CreateSearchCommand", "ExecuteSearchTaskCommand", "LogoutInstagramCommand"}

\* _command_handlers once bootstrap has run: <<h>> for a key of the dict, <<>> for none.
BootstrappedCommands == [type \in CommandTypes |-> CommandHandlers(type)]

\* A register_command that replaces the handler already registered.
RegisterCommandOverwrites(handlers, type, h) ==
    [handlers |-> [handlers EXCEPT ![type] = <<h>>], raised |-> FALSE]

\* InMemoryMessageBus.register_command: the registry after the call and whether the
\* call raised ValueError.
RegisterCommand(handlers, type, h) ==
    IF handlers[type] # <<>>
    THEN [handlers |-> handlers, raised |-> TRUE]
    ELSE [handlers |-> [handlers EXCEPT ![type] = <<h>>], raised |-> FALSE]

\* An iteration that visits the subscribers last to first.
HandlerAtReversed(handlers, i) == handlers[Len(handlers) + 1 - i]

\* InMemoryMessageBus.handle: the i-th handler `for handler in ...` visits.
HandlerAt(handlers, i) == handlers[i]

\* main.py: after bootstrap the window's handlers are subscribed, each wrapped in a
\* FunctionHandler, to JobCompleted and to TaskCompleted.
WithWindowSubscribed ==
    SubscribeToEvent(SubscribeToEvent(Bootstrapped, "JobCompleted", "FunctionHandler"),
                     "TaskCompleted", "FunctionHandler")

\* ------------------------------------------------------------------ state
VARIABLES
    job,        \* SpecAgg: the SearchJob under test
    prevJob,    \* SpecAgg: the job before the last method call
    lastOp,     \* SpecAgg: the last method call, its task id and whether it raised
    pulled,     \* SpecAgg: every event returned by pull_events so far, in order
    uow,        \* a SqlAlchemyUnitOfWork scope: its session, the progress and trace of commit
    nops,       \* SpecAgg: method calls made
    queue,      \* FakeQueueMessageBus.queue: the messages handed to handle and not yet run
    db,         \* the SQLite database: job id -> the row of search_jobs with its search_tasks rows
    heap,       \* the SearchJob objects created so far; a reference is an index
    store,      \* InMemorySearchJobRepository._jobs: job id -> reference, 0 for no entry
    event_handlers, \* InMemoryMessageBus._event_handlers: event type -> handlers subscribed
    command_handlers, \* InMemoryMessageBus._command_handlers: command type -> its handler
    seen,       \* SearchJobRepository.seen, in the order the jobs were first seen
    nextTaskId, \* the next uuid4 a new SearchTask receives
    coros,      \* the coroutines started by callers of bus.handle: call stack and exception in flight
    running,    \* the coroutine that holds the event loop, 0 when it is free
    yieldAll,   \* whether the repository and the unit of work suspend when awaited
    submitted,  \* the command that started each coroutine
    log         \* per coroutine: handlers invoked, capability outcomes, handler returns

aggVars == <<job, prevJob, lastOp, pulled, nops, uow, db, queue>>
busVars == <<heap, store, event_handlers, command_handlers, seen, nextTaskId, coros, running, yieldAll,
            submitted, log>>
vars == <<job, prevJob, lastOp, pulled, nops, uow, db, queue,
          heap, store, event_handlers, command_handlers, seen, nextTaskId, coros, running,
          yieldAll, submitted, log>>

\* SqlAlchemyUnitOfWork.__aenter__: a new session, nothing new or dirty in it, commit
\* not yet called (a scope whose session and repository are in place; constructing
\* the SQLite repository itself is SqliteSave and SqliteGet).  before is the heap when commit was called, all_events the list
\* commit builds, trace what commit did (store commits and dispatches).
ScopeEntered ==
    [pc |-> "open", new |-> {}, dirty |-> {}, before |-> <<>>, all_events |-> <<>>,
     trace |-> <<>>]

\* ------------------------------------------------- the aggregate on its own
\* A job as SearchJob.create builds it from n new tasks, with task ids 1..n.
NewTasks(first, n) == [i \in 1..n |-> SearchTask(first + i - 1)]

InitAgg ==
    /\ \E n \in 0..MaxTasks : job = SearchJobCreate(1, NewTasks(1, n))
    /\ prevJob = job
    /\ lastOp = [op |-> "create", task_id |-> 0, raised |-> FALSE]
    /\ pulled = <<>>
    /\ nops = 0
    /\ db = [id \in 1..MaxJobs |-> <<>>]
    /\ queue = <<>>
    /\ uow = ScopeEntered
    /\ heap = <<>>
    /\ store = [id \in 1..MaxJobs |-> 0]
    /\ event_handlers = Bootstrapped
    /\ command_handlers = BootstrappedCommands
    /\ seen = <<>>
    /\ nextTaskId = 1
    /\ coros = <<>>
    /\ running = 0
    /\ yieldAll = FALSE
    /\ submitted = <<>>
    /\ log = <<>>

\* Task ids a caller may pass: the job's own and one that is in no job.
AggTaskIds == 1..(MaxTasks + 1)

Called(op, task_id, raised) ==
    /\ nops < MaxOps
    /\ nops' = nops + 1
    /\ prevJob' = job
    /\ lastOp' = [op |-> op, task_id |-> task_id, raised |-> raised]
    /\ UNCHANGED <<db, queue, uow, busVars>>

AggStart ==
    /\ Called("start", 0, StartRaises(job))
    /\ job' = IF StartRaises(job) THEN job ELSE Start(job)
    /\ UNCHANGED pulled

AggUpdateTaskResult ==
    \E task_id \in AggTaskIds, result \in SearchResults :
        /\ Called("update_task_result", task_id, FALSE)
        /\ job' = UpdateTaskResult(job, task_id, result)
        /\ UNCHANGED pulled

AggUpdateTaskError ==
    \E task_id \in AggTaskIds, e \in CapabilityErrors :
        /\ Called("update_task_error", task_id, FALSE)
        /\ job' = UpdateTaskError(job, task_id, StrOfException(e))
        /\ UNCHANGED pulled

AggCheckIfCompleted ==
    /\ Called("check_if_completed", 0, FALSE)
    /\ job' = CheckIfCompleted(job)
    /\ UNCHANGED pulled

AggPullEvents ==
    /\ Called("pull_events", 0, FALSE)
    /\ pulled' = pulled \o PulledEvents(job)
    /\ job' = AfterPullEvents(job)

NextAgg ==
    \/ AggStart
    \/ AggUpdateTaskResult
    \/ AggUpdateTaskError
    \/ AggCheckIfCompleted
    \/ AggPullEvents

SpecAgg == InitAgg /\ [][NextAgg]_vars

\* ------------------------------------------------------------ call frames
\* One active call: h the callee, pc its position, msg its message, ref its local
\* `job`, i a loop index, evs the events a commit has drained, e a caught exception.
Frame(h, msg) ==
    [h |-> h, pc |-> "begin", msg |-> msg, ref |-> 0, i |-> 1, evs |-> <<>>, e |-> <<>>]

\* The world a step reads and writes.
World ==
    [heap |-> heap, store |-> store, seen |-> seen, nextTaskId |-> nextTaskId,
     event_handlers |-> event_handlers, command_handlers |-> command_handlers]

\* What one step of the top frame does: top replaces the frame (<<>> when the call
\* returns), push is the call it makes, exc the exception it raises, log what it records.
Goto(f, pc, w) ==
    [top |-> <<[f EXCEPT !.pc = pc]>>, push |-> <<>>, w |-> w, exc |-> <<>>, log |-> <<>>]
Call(f, pc, callee, w) ==
    [top |-> <<[f EXCEPT !.pc = pc]>>, push |-> <<callee>>, w |-> w, exc |-> <<>>, log |-> <<>>]
Raise(f, exception, w) ==
    [top |-> <<f>>, push |-> <<>>, w |-> w, exc |-> <<exception>>, log |-> <<>>]

\* The status of the command's task in the stored job, <<>> when there is none.
StoredTaskStatus(w, msg) ==
    IF w.store[msg.job_id] = 0 THEN <<>>
    ELSE LET j == w.heap[w.store[msg.job_id]]
             i == FindTaskById(j, msg.task_id)
         IN  IF i = 0 THEN <<>> ELSE <<j.tasks[i].status>>

Return(f, w) ==
    [top |-> <<>>, push |-> <<>>, w |-> w, exc |-> <<>>,
     log |-> <<[kind |-> "return", h |-> f.h, msg |-> f.msg, raised |-> FALSE,
                exc |-> <<>>, task_status |-> StoredTaskStatus(w, f.msg)]>>]

\* ------------------------- domain/repositories.py, infrastructure/repositories.py
\* self.seen.add(search_job): SearchJob hashes and compares by job_id, so a job equal
\* to one already in the set is not added.
SeenAdd(w, ref) ==
    IF \E k \in 1..Len(w.seen) : w.heap[w.seen[k]].job_id = w.heap[ref].job_id
    THEN w
    ELSE [w EXCEPT !.seen = Append(@, ref)]

\* A _get that hands out a copy of the stored job.
InMemoryGetCopy(w, job_id) ==
    IF w.store[job_id] = 0 THEN [w |-> w, ref |-> 0]
    ELSE [w |-> [w EXCEPT !.heap = Append(@, w.heap[w.store[job_id]])],
          ref |-> Len(w.heap) + 1]

\* InMemorySearchJobRepository._get: the stored object itself, 0 for None.
InMemoryGet(w, job_id) == [w |-> w, ref |-> w.store[job_id]]

\* InMemorySearchJobRepository._add
InMemoryAdd(w, ref) == [w EXCEPT !.store[w.heap[ref].job_id] = ref]

\* SearchJobRepository.get
RepositoryGet(w, job_id) ==
    LET got == InMemoryGet(w, job_id) IN
    IF got.ref # 0 THEN [w |-> SeenAdd(got.w, got.ref), ref |-> got.ref] ELSE got

\* SearchJobRepository.add
RepositoryAdd(w, ref) == SeenAdd(InMemoryAdd(w, ref), ref)

\* -------------------------------------------- InMemoryUnitOfWork (uow.commit)
\* The events commit drains: those of every seen job, in the order seen.
RECURSIVE DrainedEvents(_, _)
DrainedEvents(h, refs) ==
    IF refs = <<>> THEN <<>>
    ELSE PulledEvents(h[Head(refs)]) \o DrainedEvents(h, Tail(refs))

\* The heap once every seen job's events are pulled.
DrainedHeap(w) ==
    [r \in 1..Len(w.heap) |->
        IF \E k \in 1..Len(w.seen) : w.seen[k] = r
        THEN AfterPullEvents(w.heap[r]) ELSE w.heap[r]]

\* commit: drain, then dispatch each drained event through the bus.
UnitOfWorkCommit(f, w) ==
    CASE f.pc = "begin" ->
            Goto([f EXCEPT !.evs = DrainedEvents(w.heap, w.seen)], "publish",
                 [w EXCEPT !.heap = DrainedHeap(w)])
      [] f.pc = "publish" ->
            IF f.i <= Len(f.evs)
            THEN Call([f EXCEPT !.i = f.i + 1], "publish", Frame("bus", f.evs[f.i]), w)
            ELSE [Return(f, w) EXCEPT !.log = <<>>]

\* ------------------------------------------ infrastructure/message_bus.py
NoHandlerFound == [cls |-> "ValueError", args |-> <<"No handler found for command">>]

\* A bus that ignores a command nobody handles.
UnknownCommandIgnored(f, w) == [Return(f, w) EXCEPT !.log = <<>>]

\* InMemoryMessageBus.handle: `except KeyError: raise ValueError(...)`
UnknownCommand(f, w) == Raise(f, NoHandlerFound, w)

\* InMemoryMessageBus.handle
BusHandle(f, w) ==
    IF IsEvent(f.msg)
    THEN LET handlers == w.event_handlers[f.msg.type]
         IN  IF f.i <= Len(handlers)
             THEN [Call([f EXCEPT !.i = f.i + 1], "begin",
                        Frame(HandlerAt(handlers, f.i), f.msg), w)
                     EXCEPT !.log = <<[kind |-> "invoke", h |-> HandlerAt(handlers, f.i),
                                       msg |-> f.msg]>>]
             ELSE [Return(f, w) EXCEPT !.log = <<>>]
    ELSE LET handlers == w.command_handlers[f.msg.type]
         IN  IF handlers = <<>>
             THEN UnknownCommand(f, w)
             ELSE IF f.i = 1
             THEN [Call([f EXCEPT !.i = 2], "begin", Frame(handlers[1], f.msg), w)
                     EXCEPT !.log = <<[kind |-> "invoke", h |-> handlers[1], msg |-> f.msg]>>]
             ELSE [Return(f, w) EXCEPT !.log = <<>>]

\* ------------------------------------------------ application/handlers.py
\* CreateSearchCommandHandler.handle
CreateSearchCommandHandle(f, w) ==
    CASE f.pc = "begin" ->
            LET tasks == NewTasks(w.nextTaskId, f.msg.tasks)
                created == SearchJobCreate(f.msg.job_id, tasks)
                ref == Len(w.heap) + 1
                w1 == [w EXCEPT !.heap = Append(@, created),
                                !.nextTaskId = @ + f.msg.tasks]
            IN  Goto([f EXCEPT !.ref = ref], "commit", RepositoryAdd(w1, ref))
      [] f.pc = "commit" -> Call(f, "exit", Frame("commit", f.msg), w)
      [] f.pc = "exit" -> Return(f, w)

AlreadyStarted == [cls |-> "ValueError", args |-> <<"already started or completed">>]

\* What InstagramAuthService.authenticate raises when the login does not succeed.
LoginFailed == [cls |-> "Exception", args |-> <<"Instagram login failed">>]

\* PlatformServiceFactory.prepare_platforms: it awaits authenticate() for a platform
\* of the job's tasks that has an authentication service and is not authenticated
\* yet, so with no task there is nothing that can raise.
PreparePlatformsRaises(j, authenticated) == j.tasks # <<>> /\ ~authenticated

\* A handler that starts the job before it prepares the platforms.
SearchJobCreatedHandleStartFirst(f, w, authenticated) ==
    CASE f.pc = "begin" ->
            LET got == RepositoryGet(w, f.msg.job_id) IN
            IF got.ref = 0 THEN Return(f, got.w)
            ELSE Goto([f EXCEPT !.ref = got.ref], "prepare", got.w)
      [] f.pc = "prepare" ->
            IF StartRaises(w.heap[f.ref]) THEN Raise(f, AlreadyStarted, w)
            ELSE IF PreparePlatformsRaises(w.heap[f.ref], authenticated)
            THEN Raise(f, LoginFailed, [w EXCEPT !.heap[f.ref] = Start(@)])
            ELSE Call(f, "exit", Frame("commit", f.msg),
                      [w EXCEPT !.heap[f.ref] = Start(@)])
      [] f.pc = "exit" -> Return(f, w)

\* SearchJobCreatedHandler.handle; authenticated tells whether every authenticate()
\* that prepare_platforms awaits returns.
SearchJobCreatedHandle(f, w, authenticated) ==
    CASE f.pc = "begin" ->
            LET got == RepositoryGet(w, f.msg.job_id) IN
            IF got.ref = 0 THEN Return(f, got.w)
            ELSE Goto([f EXCEPT !.ref = got.ref], "prepare", got.w)
      [] f.pc = "prepare" ->
            IF PreparePlatformsRaises(w.heap[f.ref], authenticated)
            THEN Raise(f, LoginFailed, w)
            ELSE IF StartRaises(w.heap[f.ref]) THEN Raise(f, AlreadyStarted, w)
            ELSE Call(f, "exit", Frame("commit", f.msg),
                      [w EXCEPT !.heap[f.ref] = Start(@)])
      [] f.pc = "exit" -> Return(f, w)

\* A fan-out that stops after the first task.
FirstTaskOnly(j) == IF j.tasks = <<>> THEN <<>> ELSE <<j.tasks[1]>>

\* `for task in job.tasks`: the tasks SearchJobStartedHandler goes through.
TasksToDispatch(j) == j.tasks

\* SearchJobStartedHandler.handle
SearchJobStartedHandle(f, w) ==
    CASE f.pc = "begin" ->
            LET got == RepositoryGet(w, f.msg.job_id) IN
            IF got.ref = 0 THEN Return(f, got.w)
            ELSE Goto([f EXCEPT !.ref = got.ref], "loop", got.w)
      [] f.pc = "loop" ->
            LET tasks == TasksToDispatch(w.heap[f.ref]) IN
            IF f.i <= Len(tasks)
            THEN Call([f EXCEPT !.i = f.i + 1], "loop",
                      Frame("bus", ExecuteSearchTaskCommand(w.heap[f.ref].job_id,
                                                            tasks[f.i].task_id)),
                      w)
            ELSE Return(f, w)

\* What the awaited platform capability does: it returns a SearchResult or raises.
CapabilityOutcomes ==
    {[kind |-> "returned", result |-> <<r>>, exc |-> <<>>] : r \in SearchResults}
    \cup {[kind |-> "raised", result |-> <<>>, exc |-> <<e>>] : e \in CapabilityErrors}

\* ExecuteSearchTaskCommandHandler.handle; o is the outcome of the capability call.
ExecuteSearchTaskCommandHandle(f, w, o) ==
    CASE f.pc = "begin" ->
            LET got == RepositoryGet(w, f.msg.job_id) IN
            IF got.ref = 0 THEN Return(f, got.w)
            ELSE IF FindTaskById(got.w.heap[got.ref], f.msg.task_id) = 0
            THEN Return(f, got.w)
            ELSE Goto([f EXCEPT !.ref = got.ref], "search", got.w)
      [] f.pc = "search" ->
            [(IF o.kind = "returned"
              THEN Goto(f, "add",
                        [w EXCEPT !.heap[f.ref] = UpdateTaskResult(@, f.msg.task_id, o.result[1])])
              ELSE Raise(f, o.exc[1], w))
             EXCEPT !.log = <<[kind |-> "capability", h |-> f.h, msg |-> f.msg, outcome |-> o]>>]
      [] f.pc = "add" -> Goto(f, "commit", RepositoryAdd(w, f.ref))
      [] f.pc = "commit" -> Call(f, "exit", Frame("commit", f.msg), w)
      [] f.pc = "exit" -> Return(f, w)
      [] f.pc = "except" ->
            LET got == RepositoryGet(w, f.msg.job_id) IN
            IF got.ref = 0 THEN Return(f, got.w)
            ELSE IF FindTaskById(got.w.heap[got.ref], f.msg.task_id) = 0
            THEN Return(f, got.w)
            ELSE Goto([f EXCEPT !.ref = got.ref], "except_add",
                      [got.w EXCEPT !.heap[got.ref] =
                            UpdateTaskError(@, f.msg.task_id, StrOfException(f.e[1]))])
      [] f.pc = "except_add" -> Goto(f, "except_commit", RepositoryAdd(w, f.ref))
      [] f.pc = "except_commit" -> Call(f, "except_exit", Frame("commit", f.msg), w)
      [] f.pc = "except_exit" -> Return(f, w)

\* TaskCompletedHandler.handle
TaskCompletedHandle(f, w) ==
    CASE f.pc = "begin" ->
            LET got == RepositoryGet(w, f.msg.job_id) IN
            IF got.ref = 0 THEN Return(f, got.w)
            ELSE Call([f EXCEPT !.ref = got.ref], "exit", Frame("commit", f.msg),
                      [got.w EXCEPT !.heap[got.ref] = CheckIfCompleted(@)])
      [] f.pc = "exit" -> Return(f, w)

\* JobCompletedHandler.handle
JobCompletedHandle(f, w) == Return(f, w)

\* What a subscribed function may raise.
SubscriberError == [cls |-> "RuntimeError", args |-> <<"subscriber failed">>]

\* A wrapped function that looks up a key its dict does not hold.
LookupFailed == [cls |-> "KeyError", args |-> <<"missing">>]

\* What awaiting the wrapped function does: it returns (<<>>) or raises an exception.
FunctionOutcomes == {<<>>, <<SubscriberError>>, <<LookupFailed>>}

\* FunctionHandler.handle: awaits the wrapped function, which returns or raises.
FunctionHandle(f, w, raised) ==
    IF raised # <<>> THEN Raise(f, raised[1], w) ELSE Return(f, w)

\* A handler with no try statement.
NoTry(f) == FALSE

\* The outer try of ExecuteSearchTaskCommandHandler.handle: an exception raised while
\* the frame is here enters `except Exception as e`.
InOuterTry(f) ==
    /\ f.h = "ExecuteSearchTaskCommandHandler"
    /\ f.pc \in {"begin", "search", "add", "commit", "exit"}

\* The try inside that except clause: an exception raised here is logged and dropped.
InInnerTry(f) ==
    /\ f.h = "ExecuteSearchTaskCommandHandler"
    /\ f.pc \in {"except", "except_add", "except_commit", "except_exit"}

\* An exception in flight meets the top frame: a try catches it, or the call ends
\* raising (a unit-of-work scope it leaves rolls back, which changes nothing here).
\* A bus that lets every exception of a command's handler through as it is.
LeavingUnchanged(f, exception) == exception

\* The exception that leaves frame f when `exception` reaches it uncaught: in
\* InMemoryMessageBus.handle the try around a command's lookup also holds the await
\* of its handler, so `except KeyError` replaces a KeyError coming out of the handler.
Leaving(f, exception) ==
    IF f.h = "bus" /\ IsCommand(f.msg) /\ exception.cls = "KeyError"
    THEN NoHandlerFound
    ELSE exception

Propagate(f, exception, w) ==
    IF InOuterTry(f)
    THEN Goto([f EXCEPT !.e = <<exception>>], "except", w)
    ELSE IF InInnerTry(f)
    THEN Return(f, w)
    ELSE [top |-> <<>>, push |-> <<>>, w |-> w, exc |-> <<Leaving(f, exception)>>,
          log |-> IF f.h \in {"bus", "commit", "run_once"} THEN <<>>
                  ELSE <<[kind |-> "return", h |-> f.h, msg |-> f.msg, raised |-> TRUE,
                          exc |-> <<exception>>,
                          task_status |-> StoredTaskStatus(w, f.msg)]>>]

\* ------------------------------------------------------------ scheduling
Top(c) == coros[c].stack[Len(coros[c].stack)]

\* An await on real input or output: authentication (prepare_platforms) and the
\* platform search.  The other awaits complete without leaving the coroutine.
IOAwait(f) ==
    \/ f.h = "SearchJobCreatedHandler" /\ f.pc = "prepare"
    \/ f.h = "ExecuteSearchTaskCommandHandler" /\ f.pc = "search"

\* An await that reaches the repository or the unit of work's storage: with a
\* repository or a unit of work that suspends there, other coroutines may run.
SuspensionPoint(f) ==
    \/ f.h \in {"SearchJobCreatedHandler", "SearchJobStartedHandler",
                "ExecuteSearchTaskCommandHandler", "TaskCompletedHandler"}
         /\ f.pc = "begin"
    \/ f.h = "ExecuteSearchTaskCommandHandler" /\ f.pc \in {"add", "except", "except_add"}
    \/ f.h = "commit" /\ f.pc = "begin"

\* Coroutine c may take a step of handler h.
Ready(c, h) ==
    /\ coros[c].stack # <<>>
    /\ running \in {0, c}
    /\ coros[c].exc = <<>>
    /\ Top(c).h = h

\* The step's result becomes the state.
Apply(c, r) ==
    LET st == coros[c].stack
        next == SubSeq(st, 1, Len(st) - 1) \o r.top \o r.push
    IN  /\ coros' = [coros EXCEPT ![c] = [stack |-> next, exc |-> r.exc]]
        /\ heap' = r.w.heap
        /\ store' = r.w.store
        /\ seen' = r.w.seen
        /\ nextTaskId' = r.w.nextTaskId
        /\ log' = [log EXCEPT ![c] = @ \o r.log]
        /\ running' = IF next = <<>> THEN 0
                      ELSE IF r.exc = <<>> /\ IOAwait(next[Len(next)]) THEN 0
                      ELSE IF r.exc = <<>> /\ yieldAll /\ SuspensionPoint(next[Len(next)]) THEN 0
                      ELSE c
        /\ UNCHANGED <<aggVars, event_handlers, command_handlers, yieldAll, submitted>>

\* ------------------------------------------------------------- the actions
\* The number of task DTOs in a list of commands.
RECURSIVE TotalTasks(_)
TotalTasks(commands) ==
    IF commands = <<>> THEN 0 ELSE Head(commands).tasks + TotalTasks(Tail(commands))

\* The operator starts a search (MainWindow): a new job id, a command, bus.handle.
Submit ==
    /\ running = 0
    /\ Len(coros) < MaxJobs
    /\ \E n \in 0..MaxTasks :
        LET command == CreateSearchCommand(Len(coros) + 1, n) IN
        /\ TotalTasks(submitted) + n <= MaxTotalTasks
        /\ submitted' = Append(submitted, command)
        /\ coros' = Append(coros, [stack |-> <<Frame("bus", command)>>, exc |-> <<>>])
        /\ log' = Append(log, <<>>)
    /\ UNCHANGED <<aggVars, heap, store, event_handlers, command_handlers, seen, nextTaskId, running, yieldAll>>

Bus(c) == Ready(c, "bus") /\ Apply(c, BusHandle(Top(c), World))

Commit(c) == Ready(c, "commit") /\ Apply(c, UnitOfWorkCommit(Top(c), World))

CreateSearch(c) ==
    Ready(c, "CreateSearchCommandHandler") /\ Apply(c, CreateSearchCommandHandle(Top(c), World))

SearchJobCreated(c) ==
    /\ Ready(c, "SearchJobCreatedHandler")
    /\ \E authenticated \in BOOLEAN :
        /\ Top(c).pc # "prepare" => authenticated
        /\ Apply(c, SearchJobCreatedHandle(Top(c), World, authenticated))

SearchJobStarted(c) ==
    Ready(c, "SearchJobStartedHandler") /\ Apply(c, SearchJobStartedHandle(Top(c), World))

ExecuteSearchTask(c) ==
    /\ Ready(c, "ExecuteSearchTaskCommandHandler")
    /\ \E o \in CapabilityOutcomes :
        /\ Top(c).pc # "search" => o = CHOOSE x \in CapabilityOutcomes : TRUE
        /\ Apply(c, ExecuteSearchTaskCommandHandle(Top(c), World, o))

TaskCompleted(c) ==
    Ready(c, "TaskCompletedHandler") /\ Apply(c, TaskCompletedHandle(Top(c), World))

JobCompleted(c) ==
    Ready(c, "JobCompletedHandler") /\ Apply(c, JobCompletedHandle(Top(c), World))

Function(c) ==
    /\ Ready(c, "FunctionHandler")
    /\ \E raised \in FunctionOutcomes : Apply(c, FunctionHandle(Top(c), World, raised))

\* An exception travels one frame up the stack of coroutine c.
Unwind(c) ==
    /\ coros[c].stack # <<>>
    /\ running \in {0, c}
    /\ coros[c].exc # <<>>
    /\ Apply(c, Propagate(Top(c), coros[c].exc[1], World))

CoroutineIds == 1..Len(coros)

Init ==
    /\ job = SearchJobCreate(1, <<>>)
    /\ prevJob = job
    /\ lastOp = [op |-> "create", task_id |-> 0, raised |-> FALSE]
    /\ pulled = <<>>
    /\ nops = 0
    /\ db = [id \in 1..MaxJobs |-> <<>>]
    /\ queue = <<>>
    /\ uow = ScopeEntered
    /\ heap = <<>>
    /\ store = [id \in 1..MaxJobs |-> 0]
    /\ event_handlers = Bootstrapped
    /\ command_handlers = BootstrappedCommands
    /\ seen = <<>>
    /\ nextTaskId = 1
    /\ coros = <<>>
    /\ running = 0
    /\ yieldAll = FALSE
    /\ submitted = <<>>
    /\ log = <<>>

Next ==
    \/ Submit
    \/ \E c \in CoroutineIds : Bus(c)
    \/ \E c \in CoroutineIds : Commit(c)
    \/ \E c \in CoroutineIds : CreateSearch(c)
    \/ \E c \in CoroutineIds : SearchJobCreated(c)
    \/ \E c \in CoroutineIds : SearchJobStarted(c)
    \/ \E c \in CoroutineIds : ExecuteSearchTask(c)
    \/ \E c \in CoroutineIds : TaskCompleted(c)
    \/ \E c \in CoroutineIds : JobCompleted(c)
    \/ \E c \in CoroutineIds : Unwind(c)

Spec == Init /\ [][Next]_vars

\* The event loop runs a coroutine that can go on, and every awaited call completes.
Run ==
    \E c \in CoroutineIds :
        \/ Bus(c)
        \/ Commit(c)
        \/ CreateSearch(c)
        \/ SearchJobCreated(c)
        \/ SearchJobStarted(c)
        \/ ExecuteSearchTask(c)
        \/ TaskCompleted(c)
        \/ JobCompleted(c)
        \/ Unwind(c)

SpecLive == Init /\ [][Next]_vars /\ WF_vars(Run)

\* ------------------------------------ the pipeline with the window subscribed
InitObs ==
    /\ job = SearchJobCreate(1, <<>>)
    /\ prevJob = job
    /\ lastOp = [op |-> "create", task_id |-> 0, raised |-> FALSE]
    /\ pulled = <<>>
    /\ nops = 0
    /\ db = [id \in 1..MaxJobs |-> <<>>]
    /\ queue = <<>>
    /\ uow = ScopeEntered
    /\ heap = <<>>
    /\ store = [id \in 1..MaxJobs |-> 0]
    /\ event_handlers = WithWindowSubscribed
    /\ command_handlers = BootstrappedCommands
    /\ seen = <<>>
    /\ nextTaskId = 1
    /\ coros = <<>>
    /\ running = 0
    /\ yieldAll = FALSE
    /\ submitted = <<>>
    /\ log = <<>>

NextObs ==
    \/ Submit
    \/ \E c \in CoroutineIds : Bus(c)
    \/ \E c \in CoroutineIds : Commit(c)
    \/ \E c \in CoroutineIds : CreateSearch(c)
    \/ \E c \in CoroutineIds : SearchJobCreated(c)
    \/ \E c \in CoroutineIds : SearchJobStarted(c)
    \/ \E c \in CoroutineIds : ExecuteSearchTask(c)
    \/ \E c \in CoroutineIds : TaskCompleted(c)
    \/ \E c \in CoroutineIds : JobCompleted(c)
    \/ \E c \in CoroutineIds : Function(c)
    \/ \E c \in CoroutineIds : Unwind(c)

SpecObs == InitObs /\ [][NextObs]_vars

\* ------------------------- ExecuteSearchTaskCommands dispatched side by side
\* A stored job that CreateSearchCommandHandler created and SearchJobCreatedHandler
\* started, both commits done; callers then dispatch its ExecuteSearchTaskCommands in
\* coroutines of their own, which may interleave at every await.
InitConc ==
    /\ job = SearchJobCreate(1, <<>>)
    /\ prevJob = job
    /\ lastOp = [op |-> "create", task_id |-> 0, raised |-> FALSE]
    /\ pulled = <<>>
    /\ nops = 0
    /\ db = [id \in 1..MaxJobs |-> <<>>]
    /\ queue = <<>>
    /\ uow = ScopeEntered
    /\ \E n \in 1..MaxTasks :
        /\ heap = <<AfterPullEvents(Start(AfterPullEvents(SearchJobCreate(1, NewTasks(1, n)))))>>
        /\ nextTaskId = n + 1
    /\ store = [id \in 1..MaxJobs |-> IF id = 1 THEN 1 ELSE 0]
    /\ event_handlers = Bootstrapped
    /\ command_handlers = BootstrappedCommands
    /\ seen = <<1>>
    /\ coros = <<>>
    /\ running = 0
    /\ yieldAll = TRUE
    /\ submitted = <<>>
    /\ log = <<>>

\* A caller dispatches the ExecuteSearchTaskCommand of one task of the job; a task's
\* command may be dispatched again (a duplicate delivery).
Dispatch ==
    /\ running = 0
    /\ Len(coros) < MaxDispatch
    /\ \E i \in 1..Len(heap[1].tasks) :
        LET command == ExecuteSearchTaskCommand(1, heap[1].tasks[i].task_id) IN
        /\ submitted' = Append(submitted, command)
        /\ coros' = Append(coros, [stack |-> <<Frame("bus", command)>>, exc |-> <<>>])
        /\ log' = Append(log, <<>>)
    /\ UNCHANGED <<aggVars, heap, store, event_handlers, command_handlers, seen, nextTaskId, running, yieldAll>>

NextConc ==
    \/ Dispatch
    \/ \E c \in CoroutineIds : Bus(c)
    \/ \E c \in CoroutineIds : Commit(c)
    \/ \E c \in CoroutineIds : ExecuteSearchTask(c)
    \/ \E c \in CoroutineIds : TaskCompleted(c)
    \/ \E c \in CoroutineIds : JobCompleted(c)
    \/ \E c \in CoroutineIds : Unwind(c)

SpecConc == InitConc /\ [][NextConc]_vars

\* ------------------------------------- CreateSearchCommand, in two wirings
\* A bus whose only subscriber is a function that collects SearchJobCreated events,
\* as the list of events FakeUnitOfWork keeps in tests/unit/application/test_handlers.py.
Collecting ==
    SubscribeToEvent([type \in EventTypes |-> <<>>], "SearchJobCreated", "FunctionHandler")

\* The operator's commands handled by the bootstrapped bus or by the collecting one.
InitCreate ==
    /\ job = SearchJobCreate(1, <<>>)
    /\ prevJob = job
    /\ lastOp = [op |-> "create", task_id |-> 0, raised |-> FALSE]
    /\ pulled = <<>>
    /\ nops = 0
    /\ db = [id \in 1..MaxJobs |-> <<>>]
    /\ queue = <<>>
    /\ uow = ScopeEntered
    /\ heap = <<>>
    /\ store = [id \in 1..MaxJobs |-> 0]
    /\ event_handlers \in {Bootstrapped, Collecting}
    /\ command_handlers = BootstrappedCommands
    /\ seen = <<>>
    /\ nextTaskId = 1
    /\ coros = <<>>
    /\ running = 0
    /\ yieldAll = FALSE
    /\ submitted = <<>>
    /\ log = <<>>

NextCreate ==
    \/ Submit
    \/ \E c \in CoroutineIds : Bus(c)
    \/ \E c \in CoroutineIds : Commit(c)
    \/ \E c \in CoroutineIds : CreateSearch(c)
    \/ \E c \in CoroutineIds : SearchJobCreated(c)
    \/ \E c \in CoroutineIds : SearchJobStarted(c)
    \/ \E c \in CoroutineIds : ExecuteSearchTask(c)
    \/ \E c \in CoroutineIds : TaskCompleted(c)
    \/ \E c \in CoroutineIds : JobCompleted(c)
    \/ \E c \in CoroutineIds : Function(c)
    \/ \E c \in CoroutineIds : Unwind(c)

SpecCreate == InitCreate /\ [][NextCreate]_vars

\* ----------------------------------- messages about jobs and tasks not stored
\* Messages whose job id has no stored job, and an ExecuteSearchTaskCommand for the
\* stored job whose task id none of its tasks has.
StrayMessages ==
    {SearchJobCreatedEvent(MaxJobs), SearchJobStartedEvent(MaxJobs),
     TaskCompletedEvent(1, MaxJobs, "FOUND"), ExecuteSearchTaskCommand(MaxJobs, 1),
     ExecuteSearchTaskCommand(1, nextTaskId)}

\* A caller dispatches one of them.
DispatchStray ==
    /\ running = 0
    /\ Len(coros) < MaxDispatch
    /\ \E message \in StrayMessages :
        /\ submitted' = Append(submitted, message)
        /\ coros' = Append(coros, [stack |-> <<Frame("bus", message)>>, exc |-> <<>>])
        /\ log' = Append(log, <<>>)
    /\ UNCHANGED <<aggVars, heap, store, event_handlers, command_handlers, seen, nextTaskId,
                   running, yieldAll>>

\* The started job of InitConc with the commands of its tasks, and the stray messages,
\* each dispatched in a coroutine of its own.
NextStray ==
    \/ Dispatch
    \/ DispatchStray
    \/ \E c \in CoroutineIds : Bus(c)
    \/ \E c \in CoroutineIds : Commit(c)
    \/ \E c \in CoroutineIds : SearchJobCreated(c)
    \/ \E c \in CoroutineIds : SearchJobStarted(c)
    \/ \E c \in CoroutineIds : ExecuteSearchTask(c)
    \/ \E c \in CoroutineIds : TaskCompleted(c)
    \/ \E c \in CoroutineIds : JobCompleted(c)
    \/ \E c \in CoroutineIds : Unwind(c)

SpecStray == InitConc /\ [][NextStray]_vars

\* ------------------------------------------- the bus, wired by its caller
\* A bus as constructed (no handler registered, nobody subscribed) next to a repository
\* that holds one Running job.  Its caller registers and subscribes handlers, then
\* dispatches one message.
InitBus ==
    /\ job = SearchJobCreate(1, <<>>)
    /\ prevJob = job
    /\ lastOp = [op |-> "create", type |-> "", h |-> "", raised |-> FALSE]
    /\ pulled = <<>>
    /\ nops = 0
    /\ db = [id \in 1..MaxJobs |-> <<>>]
    /\ queue = <<>>
    /\ uow = ScopeEntered
    /\ \E n \in 1..MaxTasks :
        /\ heap = <<AfterPullEvents(Start(AfterPullEvents(SearchJobCreate(1, NewTasks(1, n)))))>>
        /\ nextTaskId = n + 1
    /\ store = [id \in 1..MaxJobs |-> IF id = 1 THEN 1 ELSE 0]
    /\ event_handlers = [type \in EventTypes |-> <<>>]
    /\ command_handlers = [type \in CommandTypes |-> <<>>]
    /\ seen = <<1>>
    /\ coros = <<>>
    /\ running = 0
    /\ yieldAll = FALSE
    /\ submitted = <<>>
    /\ log = <<>>

\* The handlers the caller registers for ExecuteSearchTaskCommand.
RegisteredForExecute == {"FunctionHandler", "JobCompletedHandler"}

\* The handlers the caller subscribes to SearchJobStarted.
SubscribedToStarted == {"FunctionHandler", "SearchJobStartedHandler", "JobCompletedHandler"}

\* bus.register_command(ExecuteSearchTaskCommand, h)
BusRegisterCommand ==
    /\ coros = <<>>
    /\ nops < MaxOps
    /\ \E h \in RegisteredForExecute :
        LET r == RegisterCommand(command_handlers, "ExecuteSearchTaskCommand", h) IN
        /\ command_handlers' = r.handlers
        /\ lastOp' = [op |-> "register_command", type |-> "ExecuteSearchTaskCommand",
                      h |-> h, raised |-> r.raised]
    /\ nops' = nops + 1
    /\ UNCHANGED <<db, queue, job, prevJob, pulled, uow, heap, store, event_handlers, seen, nextTaskId,
                   coros, running, yieldAll, submitted, log>>

\* bus.subscribe_to_event(SearchJobStarted, h)
BusSubscribeToEvent ==
    /\ coros = <<>>
    /\ nops < MaxOps
    /\ \E h \in SubscribedToStarted :
        /\ event_handlers' = SubscribeToEvent(event_handlers, "SearchJobStarted", h)
        /\ lastOp' = [op |-> "subscribe_to_event", type |-> "SearchJobStarted", h |-> h,
                      raised |-> FALSE]
    /\ nops' = nops + 1
    /\ UNCHANGED <<db, queue, job, prevJob, pulled, uow, heap, store, command_handlers, seen, nextTaskId,
                   coros, running, yieldAll, submitted, log>>

\* The messages the caller dispatches.
BusMessages ==
    {SearchJobStartedEvent(1), JobCompletedEvent(1), ExecuteSearchTaskCommand(1, 1),
     CreateSearchCommand(2, 1)}

\* await bus.handle(message)
BusDispatch ==
    /\ coros = <<>>
    /\ \E message \in BusMessages :
        /\ submitted' = <<message>>
        /\ coros' = <<[stack |-> <<Frame("bus", message)>>, exc |-> <<>>]>>
        /\ log' = <<<<>>>>
    /\ UNCHANGED <<aggVars, heap, store, event_handlers, command_handlers, seen, nextTaskId,
                   running, yieldAll>>

NextBus ==
    \/ BusRegisterCommand
    \/ BusSubscribeToEvent
    \/ BusDispatch
    \/ \E c \in CoroutineIds : Bus(c)
    \/ \E c \in CoroutineIds : SearchJobStarted(c)
    \/ \E c \in CoroutineIds : JobCompleted(c)
    \/ \E c \in CoroutineIds : Function(c)
    \/ \E c \in CoroutineIds : Unwind(c)

SpecBus == InitBus /\ [][NextBus]_vars

\* ------------------------------------ one job, its outcomes in two orders
\* Two runs on the same job (Pending as created, or Running): run 1 records the
\* outcomes of the tasks from the first task to the last, run 2 from the last to the
\* first, each followed by check_if_completed.  heap holds the job of each run, log
\* what each run has recorded so far.
InitOrder ==
    /\ job = SearchJobCreate(1, <<>>)
    /\ prevJob = job
    /\ lastOp = [op |-> "create", task_id |-> 0, raised |-> FALSE]
    /\ pulled = <<>>
    /\ nops = 0
    /\ db = [id \in 1..MaxJobs |-> <<>>]
    /\ queue = <<>>
    /\ uow = ScopeEntered
    /\ \E n \in 2..MaxTasks, started \in BOOLEAN :
        LET created == AfterPullEvents(SearchJobCreate(1, NewTasks(1, n)))
            j == IF started THEN AfterPullEvents(Start(created)) ELSE created
        IN  /\ heap = <<j, j>>
            /\ nextTaskId = n + 1
    /\ store = [id \in 1..MaxJobs |-> 0]
    /\ event_handlers = Bootstrapped
    /\ command_handlers = BootstrappedCommands
    /\ seen = <<>>
    /\ coros = <<>>
    /\ running = 0
    /\ yieldAll = FALSE
    /\ submitted = <<>>
    /\ log = <<<<>>, <<>>>>

\* The position of the task run r records next, 0 when it has recorded them all.
NextInOrder(r) ==
    LET n == Len(heap[r].tasks)
        k == Len(log[r]) + 1
    IN  IF k > n THEN 0 ELSE IF r = 1 THEN k ELSE n + 1 - k

\* Run r records outcome o for its next task; the other run records, or has recorded,
\* the same outcome for that task.
RecordNext(r, o, after) ==
    LET i == NextInOrder(r)
        task_id == heap[r].tasks[i].task_id
    IN  /\ \A k \in 1..Len(log[3 - r]) :
              log[3 - r][k].task_id = task_id => log[3 - r][k].outcome = o
        /\ heap' = [heap EXCEPT ![r] = after]
        /\ log' = [log EXCEPT ![r] = Append(@, [kind |-> "recorded", task_id |-> task_id,
                                                 outcome |-> o])]
        /\ UNCHANGED <<aggVars, store, event_handlers, command_handlers, seen, nextTaskId, coros, running,
                       yieldAll, submitted>>

OrderRecordResult ==
    \E r \in 1..2, result \in SearchResults :
        /\ NextInOrder(r) # 0
        /\ RecordNext(r, [kind |-> "returned", result |-> <<result>>, exc |-> <<>>],
                      CheckIfCompleted(UpdateTaskResult(
                          heap[r], heap[r].tasks[NextInOrder(r)].task_id, result)))

OrderRecordError ==
    \E r \in 1..2, e \in CapabilityErrors :
        /\ NextInOrder(r) # 0
        /\ RecordNext(r, [kind |-> "raised", result |-> <<>>, exc |-> <<e>>],
                      CheckIfCompleted(UpdateTaskError(
                          heap[r], heap[r].tasks[NextInOrder(r)].task_id, StrOfException(e))))

NextOrder ==
    \/ OrderRecordResult
    \/ OrderRecordError

SpecOrder == InitOrder /\ [][NextOrder]_vars

\* ------------------------------- infrastructure/uow.py: SqlAlchemyUnitOfWork
\* The orders in which the elements of a set may come out of an iteration.
Orders(S) ==
    {o \in [1..Cardinality(S) -> S] :
        \A a, b \in 1..Cardinality(S) : o[a] = o[b] => a = b}

\* for aggregate in dirty_aggregates: all_events.extend(aggregate.pull_events())
RECURSIVE ExtendedWithPulled(_, _)
ExtendedWithPulled(h, refs) ==
    IF refs = <<>> THEN <<>>
    ELSE PulledEvents(h[Head(refs)]) \o ExtendedWithPulled(h, Tail(refs))

\* A commit that goes on to publish right after pulling the events.
AfterPullPublish == "publish"

\* What commit does once the events are pulled: self.session.commit().
AfterPull == "store"

\* message_bus.handle(event): message_bus is the module infrastructure.message_bus,
\* which defines no handle, so the attribute lookup raises and nothing is dispatched.
ModuleHandle(event) ==
    [kind |-> "dispatch", ok |-> FALSE, event |-> <<event>>,
     exc |-> <<[cls |-> "AttributeError", args |-> <<"module has no attribute 'handle'">>]>>]

\* A scope is entered with some jobs already in the database, created and committed
\* by earlier scopes.
InitUow ==
    /\ job = SearchJobCreate(1, <<>>)
    /\ prevJob = job
    /\ lastOp = [op |-> "create", task_id |-> 0, raised |-> FALSE]
    /\ pulled = <<>>
    /\ nops = 0
    /\ db = [id \in 1..MaxJobs |-> <<>>]
    /\ queue = <<>>
    /\ uow = ScopeEntered
    /\ \E k \in 0..MaxJobs :
        /\ heap = [id \in 1..k |-> AfterPullEvents(SearchJobCreate(id, <<>>))]
        /\ store = [id \in 1..MaxJobs |-> IF id <= k THEN id ELSE 0]
    /\ event_handlers = Bootstrapped
    /\ command_handlers = BootstrappedCommands
    /\ seen = <<>>
    /\ nextTaskId = 1
    /\ coros = <<>>
    /\ running = 0
    /\ yieldAll = FALSE
    /\ submitted = <<>>
    /\ log = <<>>

\* The handler creates a job and adds it: the repository has seen it, the session
\* holds it as new.
UowAdd ==
    /\ uow.pc = "open"
    /\ Len(heap) < MaxJobs
    /\ \E n \in 0..MaxTasks :
        LET ref == Len(heap) + 1
            created == SearchJobCreate(ref, NewTasks(nextTaskId, n))
        IN  /\ nextTaskId - 1 + n <= MaxTotalTasks
            /\ heap' = Append(heap, created)
            /\ seen' = SeenAdd([heap |-> heap', seen |-> seen], ref).seen
            /\ nextTaskId' = nextTaskId + n
            /\ uow' = [uow EXCEPT !.new = @ \cup {ref}]
    /\ UNCHANGED <<db, queue, job, prevJob, lastOp, pulled, nops, store, event_handlers, command_handlers, coros,
                   running, yieldAll, submitted, log>>

\* The handler fetches a job of the database: the repository has seen it.
UowGet ==
    /\ uow.pc = "open"
    /\ \E id \in 1..MaxJobs :
        /\ store[id] # 0
        /\ \A k \in 1..Len(seen) : seen[k] # store[id]
        /\ seen' = SeenAdd([heap |-> heap, seen |-> seen], store[id]).seen
    /\ UNCHANGED <<aggVars, heap, store, event_handlers, command_handlers, nextTaskId, coros, running,
                   yieldAll, submitted, log>>

\* The handler starts a job it has: an event is appended; a job that came from the
\* database is now modified, so the session holds it as dirty.
UowStart ==
    /\ uow.pc = "open"
    /\ \E k \in 1..Len(seen) :
        /\ ~StartRaises(heap[seen[k]])
        /\ heap' = [heap EXCEPT ![seen[k]] = Start(@)]
        /\ uow' = [uow EXCEPT !.dirty = @ \cup ({seen[k]} \ uow.new)]
    /\ UNCHANGED <<db, queue, job, prevJob, lastOp, pulled, nops, store, event_handlers, command_handlers, seen,
                   nextTaskId, coros, running, yieldAll, submitted, log>>

\* commit, first part: the events of the SearchJobs in session.dirty are pulled.
UowCommit ==
    /\ uow.pc = "open"
    /\ \E order \in Orders(uow.dirty) :
        /\ uow' = [uow EXCEPT !.pc = AfterPull, !.before = heap,
                              !.all_events = ExtendedWithPulled(heap, order)]
        /\ heap' = [r \in 1..Len(heap) |->
                        IF r \in uow.dirty THEN AfterPullEvents(heap[r]) ELSE heap[r]]
    /\ UNCHANGED <<db, queue, job, prevJob, lastOp, pulled, nops, store, event_handlers, command_handlers, seen,
                   nextTaskId, coros, running, yieldAll, submitted, log>>

\* self.session.commit(): it succeeds, and the new jobs are in the database, or it
\* raises, and commit ends there.
UowSessionCommit ==
    /\ uow.pc = "store"
    /\ \E ok \in BOOLEAN :
        /\ uow' = [uow EXCEPT
                      !.pc = IF ok THEN "publish" ELSE "raised",
                      !.trace = Append(@, [kind |-> "store_commit", ok |-> ok,
                                           event |-> <<>>, exc |-> <<>>])]
        /\ store' = [id \in 1..MaxJobs |->
                        IF ok /\ id \in uow.new THEN id ELSE store[id]]
    /\ UNCHANGED <<db, queue, job, prevJob, lastOp, pulled, nops, heap, event_handlers, command_handlers, seen,
                   nextTaskId, coros, running, yieldAll, submitted, log>>

\* for event in all_events: await message_bus.handle(event)
UowPublish ==
    /\ uow.pc = "publish"
    /\ uow' = IF uow.all_events = <<>>
              THEN [uow EXCEPT !.pc = "returned"]
              ELSE [uow EXCEPT !.pc = "raised",
                               !.trace = Append(@, ModuleHandle(uow.all_events[1]))]
    /\ UNCHANGED <<db, queue, job, prevJob, lastOp, pulled, nops, busVars>>

NextUow ==
    \/ UowAdd
    \/ UowGet
    \/ UowStart
    \/ UowCommit
    \/ UowSessionCommit
    \/ UowPublish

SpecUow == InitUow /\ [][NextUow]_vars

\* ------------------------------------------------------------------ claims
\* The number of events of one type in a list of events.
RECURSIVE CountType(_, _)
CountType(events, type) ==
    IF events = <<>> THEN 0
    ELSE (IF Head(events).type = type THEN 1 ELSE 0) + CountType(Tail(events), type)

Resolved == {"FOUND", "NOT_FOUND", "ERROR"}

\* C1 as stated: under any sequence of start, update_task_result, update_task_error
\* and check_if_completed calls, a change of job.status is Pending->Running or
\* Running->Completed and nothing else.
C1_OnlyPendingRunningCompleted ==
    [][job.status # job'.status =>
        <<job.status, job'.status>> \in {<<"PENDING", "RUNNING">>, <<"RUNNING", "COMPLETED">>}]_vars

\* C1 as amended: a change of job.status is Pending->Running, Running->Completed or
\* Pending->Completed (check_if_completed on a job that was never started and has
\* no Pending task); Failed is never entered and Completed is never left.
C1_StatusMoves ==
    [][job.status # job'.status =>
        <<job.status, job'.status>> \in {<<"PENDING", "RUNNING">>, <<"RUNNING", "COMPLETED">>,
                                         <<"PENDING", "COMPLETED">>}]_vars

\* C1 witness: check_if_completed has taken a never-started job with tasks to Completed.
C1_Witness ==
    /\ lastOp.op = "check_if_completed"
    /\ prevJob.status = "PENDING"
    /\ job.status = "COMPLETED"
    /\ Len(job.tasks) >= 1

\* C2: a Completed job has no Pending task, and check_if_completed on a job that is
\* not Completed makes it Completed exactly when every task is Found, NotFound or Error.
C2_CompletedIffAllResolved ==
    /\ job.status = "COMPLETED" =>
          \A i \in 1..Len(job.tasks) : job.tasks[i].status # "PENDING"
    /\ (lastOp.op = "check_if_completed" /\ prevJob.status # "COMPLETED") =>
          (job.status = "COMPLETED" <=>
              \A i \in 1..Len(prevJob.tasks) : prevJob.tasks[i].status \in Resolved)

\* C2 witness: check_if_completed has completed a Running job of several tasks, and
\* (in another state) has left a job with one resolved and one Pending task alone.
C2_Witness ==
    /\ lastOp.op = "check_if_completed"
    /\ prevJob.status = "RUNNING"
    /\ job.status = "COMPLETED"
    /\ Len(job.tasks) >= 2

\* C3: at most one JobCompleted is ever appended to a job, and check_if_completed on
\* a Completed job changes nothing and appends nothing.
C3_CheckIsIdempotent ==
    /\ CountType(pulled \o job.events, "JobCompleted") <= 1
    /\ (lastOp.op = "check_if_completed" /\ prevJob.status = "COMPLETED") => job = prevJob

\* C3 witness: check_if_completed was called on a Completed job whose JobCompleted
\* had already been pulled.
C3_Witness ==
    /\ lastOp.op = "check_if_completed"
    /\ prevJob.status = "COMPLETED"
    /\ CountType(pulled, "JobCompleted") = 1
    /\ Len(job.tasks) >= 1

\* C13: start() on a Pending job sets Running, appends exactly one SearchJobStarted
\* and touches nothing else; on a Running or Completed job it raises and leaves the
\* job as it was; so a job is started at most once.
C13_StartOnlyFromPending ==
    /\ lastOp.op = "start" =>
          IF prevJob.status = "PENDING"
          THEN /\ ~lastOp.raised
               /\ job = [prevJob EXCEPT
                            !.status = "RUNNING",
                            !.events = Append(@, SearchJobStartedEvent(prevJob.job_id))]
          ELSE lastOp.raised /\ job = prevJob
    /\ CountType(pulled \o job.events, "SearchJobStarted") <= 1

\* C13 witness: a second start() was called on the job the first one had set Running.
C13_Witness ==
    /\ lastOp.op = "start"
    /\ lastOp.raised
    /\ prevJob.status = "RUNNING"
    /\ CountType(pulled \o job.events, "SearchJobStarted") = 1

\* C14: pull_events returns the pending events in the order appended and empties the
\* list, a pull right after a pull returns nothing, and an event appended once (the
\* job's SearchJobCreated, SearchJobStarted, JobCompleted) is returned by one pull only.
C14_PullEventsDrains ==
    [][lastOp'.op = "pull_events" /\ nops' # nops =>
          /\ pulled' = pulled \o job.events
          /\ job' = [job EXCEPT !.events = <<>>]
          /\ lastOp.op = "pull_events" => pulled' = pulled
          /\ \A type \in {"SearchJobCreated", "SearchJobStarted", "JobCompleted"} :
                CountType(pulled', type) <= 1]_vars

\* C14 witness: a pull that returned several events was followed by a second pull.
C14_Witness ==
    /\ lastOp.op = "pull_events"
    /\ prevJob.events = <<>>
    /\ Len(pulled) >= 2
    /\ job.events = <<>>

\* ------------------------------------------------ claims about the pipeline
IsInvoke(x) == x.kind = "invoke"
IsCapability(x) == x.kind = "capability"
IsReturn(x) == x.kind = "return"

\* The messages for which coroutine c has invoked a handler, in order.
Invoked(c) == SelectSeq(log[c], IsInvoke)

\* The coroutine has run to its end.
Done(c) == coros[c].stack = <<>>

\* The positions in log[c] where handler h was invoked.
InvokedHandler(c, h) == {k \in 1..Len(log[c]) : IsInvoke(log[c][k]) /\ log[c][k].h = h}

\* The command that started coroutine c.
Command(c) == submitted[c]

\* The job stored under the job id of coroutine c's command.
Stored(c) == heap[store[Command(c).job_id]]

\* The positions in log[c] of the entries of one kind about task t.
Entries(c, kind, t) ==
    {k \in 1..Len(log[c]) : log[c][k].kind = kind /\ log[c][k].msg.task_id = t}

\* The positions in log[c] where a handler was invoked with a TaskCompleted for task t.
TaskCompletedOf(c, t) ==
    {k \in Entries(c, "invoke", t) : log[c][k].msg.type = "TaskCompleted"}

\* What a task looks like once outcome o was recorded on a new task.
Recorded(task_id, o) ==
    IF o.kind = "returned"
    THEN [task_id |-> task_id, keyword |-> [text |-> task_id],
          blog_posts_to_find |-> <<"url1">>,
          status |-> IF o.result[1].found_posts = <<>> THEN "NOT_FOUND" ELSE "FOUND",
          result |-> o.result, error_message |-> <<>>]
    ELSE [task_id |-> task_id, keyword |-> [text |-> task_id],
          blog_posts_to_find |-> <<"url1">>,
          status |-> "ERROR", result |-> <<>>,
          error_message |-> <<IF o.exc[1].args = <<>> THEN "" ELSE o.exc[1].args[1]>>]

\* C7: when the capability raised for a task, then once its handler has returned the
\* task is Error with the exception's message, one TaskCompleted with status Error
\* was published for it, and the job is Completed once the pipeline has run.
C7_CapabilityFailureRecorded ==
    \A c \in CoroutineIds :
        \A k \in 1..Len(log[c]) :
            LET x == log[c][k] IN
            (IsCapability(x) /\ x.outcome.kind = "raised"
                /\ \E r \in Entries(c, "return", x.msg.task_id) :
                      r > k /\ log[c][r].h = "ExecuteSearchTaskCommandHandler") =>
            LET i == FindTaskById(Stored(c), x.msg.task_id) IN
            /\ i # 0
            /\ Stored(c).tasks[i].status = "ERROR"
            /\ Stored(c).tasks[i].error_message = <<StrOfException(x.outcome.exc[1])>>
            /\ Cardinality({p \in TaskCompletedOf(c, x.msg.task_id) :
                              log[c][p].msg.status = TaskStatusValue("ERROR")}) = 1
            /\ Done(c) => Stored(c).status = "COMPLETED"

\* C7 witness: a pipeline of two tasks has run, the capability raised with a message
\* for one of them and returned for the other.
C7_Witness ==
    \E c \in CoroutineIds :
        /\ Done(c) /\ Command(c).tasks = 2
        /\ \E k \in 1..Len(log[c]) :
              /\ IsCapability(log[c][k])
              /\ log[c][k].outcome.kind = "raised"
              /\ log[c][k].outcome.exc[1].args # <<>>
        /\ \E k \in 1..Len(log[c]) :
              IsCapability(log[c][k]) /\ log[c][k].outcome.kind = "returned"

\* The type and task id of each message handled.
Shape(entries) == [k \in 1..Len(entries) |-> <<entries[k].msg.type, entries[k].msg.task_id>>]

C10_FailureDoesNotAbortOthers ==
    \A c \in CoroutineIds :
        (Done(c) /\ InvokedHandler(c, "SearchJobStartedHandler") # {}) =>
            /\ Len(Stored(c).tasks) = Command(c).tasks
            /\ \A i \in 1..Len(Stored(c).tasks) :
                LET t == Stored(c).tasks[i].task_id IN
                /\ \E k \in Entries(c, "invoke", t) :
                      log[c][k].h = "ExecuteSearchTaskCommandHandler"
                /\ Cardinality(Entries(c, "capability", t)) = 1
                /\ \A k \in Entries(c, "capability", t) :
                      Stored(c).tasks[i] = Recorded(t, log[c][k].outcome)

\* C10 witness: the capability raised for the first task and returned for the second.
C10_Witness ==
    \E c \in CoroutineIds :
        /\ Done(c) /\ Command(c).tasks >= 2
        /\ \E k1, k2 \in 1..Len(log[c]) :
              /\ k1 < k2
              /\ IsCapability(log[c][k1]) /\ log[c][k1].outcome.kind = "raised"
              /\ IsCapability(log[c][k2]) /\ log[c][k2].outcome.kind = "returned"
              /\ log[c][k1].msg.task_id # log[c][k2].msg.task_id

\* Every coroutine has run to its end.
AllDone == \A c \in CoroutineIds : Done(c)

\* The places <<c, k>> of the log where handler h was invoked with a message of job j.
InvokedFor(h, j) ==
    {ck \in CoroutineIds \X (1..20) :
        /\ ck[2] <= Len(log[ck[1]])
        /\ IsInvoke(log[ck[1]][ck[2]])
        /\ log[ck[1]][ck[2]].h = h
        /\ log[ck[1]][ck[2]].msg.job_id = j}

\* The capability calls <<c, k>> made for task t.
CapabilityCalls(t) ==
    {ck \in CoroutineIds \X (1..20) :
        /\ ck[2] <= Len(log[ck[1]])
        /\ IsCapability(log[ck[1]][ck[2]])
        /\ log[ck[1]][ck[2]].msg.task_id = t}

\* C4: however the TaskCompleted handlings of a job fall (before or after the one
\* that finds every task resolved, for a task delivered twice, interleaved), at most
\* one JobCompleted is published for the job, only when the job is Completed with
\* every task resolved, and exactly one once every task is resolved and every
\* handler has returned.
C4_JobCompletedPublishedOnce ==
    \A j \in 1..MaxJobs :
        store[j] # 0 =>
            LET published == Cardinality(InvokedFor("JobCompletedHandler", j))
                stored == heap[store[j]]
            IN  /\ published <= 1
                /\ published = 1 =>
                      stored.status = "COMPLETED" /\ AllTasksLeftPending(stored)
                /\ (AllDone /\ stored.tasks # <<>> /\ AllTasksLeftPending(stored)) =>
                      published = 1 /\ stored.status = "COMPLETED"

\* C4 witness: JobCompleted was published and TaskCompleted was handled more often
\* than the job has tasks (a task was delivered twice), so a TaskCompleted was
\* handled after the job had been completed.
C4_Witness ==
    /\ AllDone
    /\ store[1] # 0
    /\ Cardinality(InvokedFor("JobCompletedHandler", 1)) = 1
    /\ Cardinality(InvokedFor("TaskCompletedHandler", 1)) > Len(heap[store[1]].tasks)

\* The c-th command submitted creates a job of at least one task.
SubmittedWithTasks(c) ==
    IF Len(submitted) >= c THEN submitted[c].tasks >= 1 ELSE FALSE

\* The job of the c-th command is stored Completed, every task resolved.
StoredCompleted(c) ==
    IF Len(submitted) < c THEN FALSE
    ELSE IF store[submitted[c].job_id] = 0 THEN FALSE
    ELSE LET stored == heap[store[submitted[c].job_id]] IN
         /\ stored.status = "COMPLETED"
         /\ \A i \in 1..Len(stored.tasks) : stored.tasks[i].status \in Resolved

\* C5 as stated: a job created by a command with at least one task is eventually
\* stored as Completed with every task Found, NotFound or Error.
C5_JobEventuallyCompleted ==
    \A c \in 1..MaxJobs : SubmittedWithTasks(c) ~> StoredCompleted(c)

\* The dispatch of the c-th command has ended with the error of a failed login, and
\* its job is stored Pending.
EndedByLoginFailed(c) ==
    IF Len(coros) < c THEN FALSE
    ELSE IF store[submitted[c].job_id] = 0 THEN FALSE
    ELSE /\ coros[c].stack = <<>>
         /\ coros[c].exc = <<LoginFailed>>
         /\ heap[store[submitted[c].job_id]].status = "PENDING"

\* C5 as amended: a job created by a command with at least one task is eventually
\* stored as Completed with every task Found, NotFound or Error, unless the login
\* that prepares its platforms fails: then the dispatch of the command ends with that
\* error and the job is stored Pending.
C5_CompletedUnlessLoginFails ==
    \A c \in 1..MaxJobs : SubmittedWithTasks(c) ~> (StoredCompleted(c) \/ EndedByLoginFailed(c))

\* C5 witness: a job of two tasks is Completed, one task resolved by an error.
C5_Witness ==
    \E c \in CoroutineIds :
        /\ submitted[c].tasks = 2
        /\ store[submitted[c].job_id] # 0
        /\ Stored(c).status = "COMPLETED"
        /\ Len(Stored(c).tasks) = 2
        /\ Stored(c).tasks[1].status = "ERROR"
        /\ Stored(c).tasks[2].status \in {"FOUND", "NOT_FOUND"}

\* C9: once every handler has returned, a task for which the capability was called
\* is not Pending, and a task handled by one handler carries exactly what that
\* handler recorded, whatever the handlers of the other tasks did in between.
C9_NoLostTaskUpdate ==
    AllDone =>
        \A i \in 1..Len(heap[store[1]].tasks) :
            LET task == heap[store[1]].tasks[i]
                calls == CapabilityCalls(task.task_id)
            IN  /\ calls # {} => task.status # "PENDING"
                /\ \A ck \in calls :
                      Cardinality(calls) = 1 =>
                          task = Recorded(task.task_id, log[ck[1]][ck[2]].outcome)

\* C9 witness: two handlers for different tasks have interleaved (the commit of one
\* published the TaskCompleted the other had appended) and both have returned.
C9_Witness ==
    /\ AllDone
    /\ \E c \in CoroutineIds :
          \E k \in 1..Len(log[c]) :
              /\ IsInvoke(log[c][k])
              /\ log[c][k].msg.type = "TaskCompleted"
              /\ log[c][k].msg.task_id # Command(c).task_id
              /\ Cardinality(CapabilityCalls(log[c][k].msg.task_id)) = 1
              /\ Cardinality(CapabilityCalls(Command(c).task_id)) = 1

\* C6: ExecuteSearchTaskCommandHandler.handle never ends raising, and when it returns
\* after the capability was called for its task, the stored task is Found, NotFound
\* or Error, whatever failed in between (the capability, a subscriber of the events
\* its commits publish, in the try or in the except clause).
C6_ExecuteNeverRaisesNorLeavesPending ==
    \A c \in CoroutineIds :
        \A k \in 1..Len(log[c]) :
            (IsReturn(log[c][k]) /\ log[c][k].h = "ExecuteSearchTaskCommandHandler") =>
                /\ ~log[c][k].raised
                /\ (\E n \in 1..(k - 1) :
                        IsCapability(log[c][n]) /\ log[c][n].msg = log[c][k].msg) =>
                      \E status \in Resolved : log[c][k].task_status = <<status>>

\* C6 witness: the handler has returned after a subscriber raised twice under it,
\* once in the commit of the try and once in the commit of the except clause.
C6_Witness ==
    \E c \in CoroutineIds :
        \E k \in 1..Len(log[c]) :
            /\ IsReturn(log[c][k])
            /\ log[c][k].h = "ExecuteSearchTaskCommandHandler"
            /\ ~log[c][k].raised
            /\ Cardinality({n \in 1..(k - 1) :
                    /\ IsReturn(log[c][n])
                    /\ log[c][n].h = "FunctionHandler"
                    /\ log[c][n].raised
                    /\ log[c][n].msg.type = "TaskCompleted"
                    /\ log[c][n].msg.task_id = log[c][k].msg.task_id}) = 2

\* The store commit of the scope's commit succeeded.
StoreCommitted ==
    \E n \in 1..Len(uow.trace) : uow.trace[n].kind = "store_commit" /\ uow.trace[n].ok

\* C11: commit goes about dispatching an event only after the session's commit has
\* succeeded, and when the session's commit raises it dispatches none.
C11_DispatchOnlyAfterStoreCommit ==
    /\ \A k \in 1..Len(uow.trace) :
          uow.trace[k].kind = "dispatch" =>
              \E n \in 1..(k - 1) : uow.trace[n].kind = "store_commit" /\ uow.trace[n].ok
    /\ (\E n \in 1..Len(uow.trace) : uow.trace[n].kind = "store_commit" /\ ~uow.trace[n].ok) =>
          \A k \in 1..Len(uow.trace) : uow.trace[k].kind # "dispatch"

\* C11 witness: commit pulled events, the session's commit succeeded, and commit then
\* went on to the dispatch of the first event.
C11_Witness ==
    /\ uow.all_events # <<>>
    /\ Len(uow.trace) = 2
    /\ uow.trace[1].kind = "store_commit" /\ uow.trace[1].ok
    /\ uow.trace[2].kind = "dispatch"

\* The events commit dispatched, in the order of their dispatch.
RECURSIVE Dispatched(_)
Dispatched(trace) ==
    IF trace = <<>> THEN <<>>
    ELSE (IF Head(trace).kind = "dispatch" /\ Head(trace).ok THEN Head(trace).event ELSE <<>>)
         \o Dispatched(Tail(trace))

\* C12: commit drains the pending events of every aggregate the repository has seen,
\* in the order seen and within one aggregate in the order appended, and once the
\* store commit has succeeded and commit has ended it has dispatched them in that order.
C12_DrainsSeenAndDispatchesInOrder ==
    /\ uow.pc # "open" => uow.all_events = ExtendedWithPulled(uow.before, seen)
    /\ (uow.pc \in {"returned", "raised"} /\ StoreCommitted) =>
          Dispatched(uow.trace) = uow.all_events

\* C15: once both runs have recorded every task's outcome, the two jobs have the
\* same status and the same tasks (status, result, error message), whichever order
\* the outcomes were recorded in.
C15_ResolutionOrderIrrelevant ==
    (NextInOrder(1) = 0 /\ NextInOrder(2) = 0) =>
        /\ heap[1].status = heap[2].status
        /\ heap[1].tasks = heap[2].tasks

\* C15 witness: both runs are done, the job is Completed, its first task Found and
\* its last NotFound.
C15_Witness ==
    /\ NextInOrder(1) = 0
    /\ NextInOrder(2) = 0
    /\ heap[1].status = "COMPLETED"
    /\ heap[2].status = "COMPLETED"
    /\ heap[1].tasks[1].status = "FOUND"
    /\ heap[1].tasks[Len(heap[1].tasks)].status = "NOT_FOUND"

\* C17: register_command raises exactly when the command type already has a handler,
\* and then leaves the registry as it was; otherwise it registers the handler.  No
\* command type ever has more than one handler.
C17_RegisterCommandOnce ==
    [][(lastOp'.op = "register_command" /\ nops' # nops) =>
          /\ lastOp'.raised = (command_handlers[lastOp'.type] # <<>>)
          /\ IF command_handlers[lastOp'.type] # <<>>
             THEN command_handlers' = command_handlers
             ELSE command_handlers' =
                      [command_handlers EXCEPT ![lastOp'.type] = <<lastOp'.h>>]
          /\ \A type \in CommandTypes : Len(command_handlers'[type]) <= 1]_vars

\* C17 witness: a second register_command for ExecuteSearchTaskCommand, with another
\* handler than the first, has raised and the first handler is still registered.
C17_Witness ==
    /\ lastOp.op = "register_command"
    /\ lastOp.raised
    /\ command_handlers[lastOp.type] # <<>>
    /\ command_handlers[lastOp.type] # <<lastOp.h>>

\* C18: no handler is ever invoked with a command whose type has no registered
\* handler; the dispatch of such a command ends with the no-handler error at its
\* caller, and when SearchJobStartedHandler is that caller the error leaves the handler
\* and reaches the caller of the outer dispatch.
C18_NoHandlerErrorReachesCaller ==
    \A c \in CoroutineIds :
        /\ \A k \in 1..Len(log[c]) :
              (IsInvoke(log[c][k]) /\ IsCommand(log[c][k].msg)) =>
                  command_handlers[log[c][k].msg.type] # <<>>
        /\ (Done(c) /\ IsCommand(Command(c)) /\ command_handlers[Command(c).type] = <<>>) =>
              /\ log[c] = <<>>
              /\ coros[c].exc = <<NoHandlerFound>>
        /\ (Done(c) /\ command_handlers["ExecuteSearchTaskCommand"] = <<>>
                    /\ InvokedHandler(c, "SearchJobStartedHandler") # {}) =>
              /\ coros[c].exc = <<NoHandlerFound>>
              /\ log[c][Len(log[c])] =
                    [kind |-> "return", h |-> "SearchJobStartedHandler", msg |-> Command(c),
                     raised |-> TRUE, exc |-> <<NoHandlerFound>>, task_status |-> <<>>]

\* C18 witness: SearchJobStartedHandler, invoked after another subscriber returned,
\* dispatched a command nobody handles, and the error ended the outer dispatch.
C18_Witness ==
    /\ Len(coros) = 1
    /\ Done(1)
    /\ command_handlers["ExecuteSearchTaskCommand"] = <<>>
    /\ InvokedHandler(1, "SearchJobStartedHandler") # {}
    /\ InvokedHandler(1, "JobCompletedHandler") # {}
    /\ coros[1].exc = <<NoHandlerFound>>

\* What log[c] holds about the handlers the bus invoked with the dispatched message.
InvokedWith(c) ==
    SelectSeq(log[c], LAMBDA x : IsInvoke(x) /\ x.msg = Command(c))
ReturnedFrom(c) ==
    SelectSeq(log[c], LAMBDA x : IsReturn(x) /\ x.msg = Command(c))

\* C19: the handlers invoked with a dispatched event are the subscribers of its type
\* from the first on, in subscription order and once per subscription; none is
\* invoked after one that raised, whose error ends the dispatch; when none raises
\* every subscriber is invoked and the dispatch ends without error, also when there
\* is no subscriber.
C19_SubscribersInOrderUntilFirstRaise ==
    \A c \in CoroutineIds :
        IsEvent(Command(c)) =>
            LET subscribers == event_handlers[Command(c).type]
                inv == InvokedWith(c)
                ret == ReturnedFrom(c)
            IN  /\ Len(inv) <= Len(subscribers)
                /\ \A k \in 1..Len(inv) : inv[k].h = subscribers[k]
                /\ \A k \in 1..Len(ret) : ret[k].raised => k = Len(inv)
                /\ Done(c) =>
                      IF \E k \in 1..Len(ret) : ret[k].raised
                      THEN /\ coros[c].exc # <<>>
                           /\ coros[c].exc = ret[Len(ret)].exc
                      ELSE /\ Len(inv) = Len(subscribers)
                           /\ Len(ret) = Len(subscribers)
                           /\ coros[c].exc = <<>>

\* C19 witness: of three subscribers the first, a JobCompletedHandler, returned, the
\* second, a FunctionHandler, raised, and the third was not invoked.
C19_Witness ==
    /\ Len(coros) = 1
    /\ Done(1)
    /\ IsEvent(Command(1))
    /\ Len(event_handlers[Command(1).type]) = 3
    /\ event_handlers[Command(1).type][1] = "JobCompletedHandler"
    /\ event_handlers[Command(1).type][2] = "FunctionHandler"
    /\ Len(InvokedWith(1)) = 2
    /\ coros[1].exc = <<SubscriberError>>

\* The message of coroutine c names a job that is not stored, or is an
\* ExecuteSearchTaskCommand naming a task its job does not have.
Stray(c) ==
    IF store[Command(c).job_id] = 0 THEN TRUE
    ELSE /\ Command(c).type = "ExecuteSearchTaskCommand"
         /\ \A i \in 1..Len(Stored(c).tasks) : Stored(c).tasks[i].task_id # Command(c).task_id

\* What the dispatch of coroutine c's message records when its handler does nothing
\* but return.
InvokedAndReturned(c) ==
    LET h == IF IsEvent(Command(c)) THEN event_handlers[Command(c).type][1]
             ELSE command_handlers[Command(c).type][1]
    IN  <<[kind |-> "invoke", h |-> h, msg |-> Command(c)],
          [kind |-> "return", h |-> h, msg |-> Command(c), raised |-> FALSE,
           exc |-> <<>>, task_status |-> <<>>]>>

\* C16: the dispatch of a message about a job that is not stored (for
\* ExecuteSearchTaskCommand also about a task the job does not have) invokes the handler
\* of the message and nothing else: the handler returns without raising, there is no
\* capability call, no commit and no further dispatch, and no step of that dispatch
\* changes a stored job, the repository or what it has seen.
C16_UnknownIdsAreIgnored ==
    /\ [](\A c \in CoroutineIds :
            Stray(c) =>
                /\ coros[c].exc = <<>>
                /\ Len(log[c]) <= 2
                /\ log[c] = SubSeq(InvokedAndReturned(c), 1, Len(log[c]))
                /\ Len(coros[c].stack) <= 2
                /\ \A k \in 1..Len(coros[c].stack) :
                      coros[c].stack[k].h \in {"bus", InvokedAndReturned(c)[1].h}
                /\ Done(c) => log[c] = InvokedAndReturned(c))
    /\ [][\A c \in CoroutineIds :
            (Stray(c) /\ coros'[c] # coros[c]) =>
                /\ heap' = heap
                /\ store' = store
                /\ seen' = seen]_vars

\* C16 witness: after a task of the stored job was resolved, an
\* ExecuteSearchTaskCommand naming a task the job does not have has been handled.
C16_Witness ==
    /\ Len(coros) = 2
    /\ Done(1)
    /\ Done(2)
    /\ ~Stray(1)
    /\ Command(2) = ExecuteSearchTaskCommand(1, nextTaskId)
    /\ log[2] = InvokedAndReturned(2)

\* CreateSearchCommandHandler has returned, without raising, in coroutine c.
CreateReturned(c) ==
    \E k \in 1..Len(log[c]) :
        /\ IsReturn(log[c][k])
        /\ log[c][k].h = "CreateSearchCommandHandler"
        /\ ~log[c][k].raised

\* The positions in log[d] where a handler was invoked with the SearchJobCreated of
\* coroutine c's job.
CreatedPublished(c, d) ==
    {k \in 1..Len(log[d]) :
        IsInvoke(log[d][k]) /\ log[d][k].msg = SearchJobCreatedEvent(Command(c).job_id)}

\* The job is as SearchJob.create left it, but for its drained events: Pending, with
\* n Pending tasks in the order they were built.
PendingAsCreated(j, job_id, n) ==
    /\ j.job_id = job_id
    /\ j.status = "PENDING"
    /\ j.events = <<>>
    /\ Len(j.tasks) = n
    /\ \A i \in 1..n : j.tasks[i] = SearchTask(j.tasks[1].task_id + i - 1)

\* C20: once CreateSearchCommandHandler has returned, the repository holds a job
\* with the command's job id and one task per task DTO in the order of the DTOs, and
\* one SearchJobCreated carrying that job id has been published, once, by that
\* handler's commit; when that event was handed to its subscriber the stored job was
\* Pending as created with its events drained, and it stays so when the subscriber
\* only collects the event.
C20_CreateStoresPendingJobAndPublishes ==
    /\ [](\A c \in CoroutineIds :
            CreateReturned(c) =>
                /\ store[Command(c).job_id] # 0
                /\ Stored(c).job_id = Command(c).job_id
                /\ Len(Stored(c).tasks) = Command(c).tasks
                /\ \A i \in 1..Len(Stored(c).tasks) :
                      Stored(c).tasks[i].task_id = Stored(c).tasks[1].task_id + i - 1
                /\ Cardinality(CreatedPublished(c, c)) = 1
                /\ \A d \in CoroutineIds \ {c} : CreatedPublished(c, d) = {}
                /\ event_handlers = Collecting =>
                      PendingAsCreated(Stored(c), Command(c).job_id, Command(c).tasks))
    /\ [][\A c \in CoroutineIds :
            (c <= Len(log) /\ CreatedPublished(c, c) = {} /\ CreatedPublished(c, c)' # {}) =>
                /\ store[Command(c).job_id] # 0
                /\ PendingAsCreated(Stored(c), Command(c).job_id, Command(c).tasks)]_vars

\* C20 witness: on the bootstrapped bus the handler has returned for a command with
\* two task DTOs, after the job it stored ran to completion.
C20_Witness ==
    /\ Len(coros) >= 1
    /\ CreateReturned(1)
    /\ event_handlers = Bootstrapped
    /\ Command(1).tasks = 2
    /\ Stored(1).status = "COMPLETED"

\* The position in job j of the task with id task_id: the tasks of a job have
\* different ids, so there is at most one.
Known(j, task_id) == {i \in 1..Len(j.tasks) : j.tasks[i].task_id = task_id}

\* C26: update_task_result with the id of a task of the job makes that task Found when
\* the result has matched posts and NotFound when it has none, stores the result on
\* it, and appends one TaskCompleted with the job id, the task id and the new status.
C26_UpdateTaskResultRecords ==
    [][(lastOp'.op = "update_task_result" /\ nops' # nops /\ Known(job, lastOp'.task_id) # {}) =>
          \E result \in SearchResults : \E i \in Known(job, lastOp'.task_id) :
              LET status == IF result.found_posts # <<>> THEN "FOUND" ELSE "NOT_FOUND" IN
              /\ job'.tasks[i].status = status
              /\ job'.tasks[i].result = <<result>>
              /\ job'.events =
                    Append(job.events,
                           [type |-> "TaskCompleted", job_id |-> job.job_id,
                            task_id |-> lastOp'.task_id, status |-> TaskStatusValue(status)])]_vars

\* C26 witness: update_task_result has just made the second task of a job NotFound,
\* after the first was made Found.
C26_Witness ==
    /\ lastOp.op = "update_task_result"
    /\ lastOp.task_id = 2
    /\ Len(job.tasks) = 2
    /\ prevJob.tasks[2].status = "PENDING"
    /\ job.tasks[1].status = "FOUND"
    /\ job.tasks[2].status = "NOT_FOUND"

\* C27: update_task_result and update_task_error with an id no task of the job has
\* raise nothing and leave the job, its tasks and its pending events as they were.
C27_UnknownTaskIdIsNoOp ==
    [][(lastOp'.op \in {"update_task_result", "update_task_error"} /\ nops' # nops
            /\ Known(job, lastOp'.task_id) = {}) =>
          /\ ~lastOp'.raised
          /\ job' = job]_vars

\* C27 witness: update_task_error was called with an unknown id on a job that has a
\* resolved and a Pending task.
C27_Witness ==
    /\ lastOp.op = "update_task_error"
    /\ Known(prevJob, lastOp.task_id) = {}
    /\ Len(job.tasks) = 2
    /\ job.tasks[1].status = "FOUND"
    /\ job.tasks[2].status = "PENDING"
    /\ job = prevJob

\* The positions in log[c] where SearchJobCreatedHandler ended, by return or by raise.
CreatedHandled(c) ==
    {k \in 1..Len(log[c]) : IsReturn(log[c][k]) /\ log[c][k].h = "SearchJobCreatedHandler"}

\* The positions in log[c] where a handler was invoked with the SearchJobStarted of
\* coroutine c's job.
StartedPublished(c) ==
    {k \in 1..Len(log[c]) :
        IsInvoke(log[c][k]) /\ log[c][k].msg = SearchJobStartedEvent(Command(c).job_id)}

\* C21 as stated: whenever SearchJobCreatedHandler has handled the SearchJobCreated of
\* a stored Pending job, the job has left Pending for Running and one SearchJobStarted
\* has been published.
C21_CreatedHandledStartsJob ==
    \A c \in CoroutineIds :
        CreatedHandled(c) # {} =>
            /\ Stored(c).status # "PENDING"
            /\ Cardinality(StartedPublished(c)) = 1

\* C21 as amended: when the handler returns, the job has left Pending for Running and
\* one SearchJobStarted has been published, by the handler's commit, at a moment the
\* stored job was Running with its events drained; the handler raises only when the
\* login that prepares the job's platforms failed, and then the job is still Pending
\* and no SearchJobStarted has been published.
C21_CreatedHandledStartsJobUnlessLoginFails ==
    /\ [](\A c \in CoroutineIds : \A k \in CreatedHandled(c) :
            IF log[c][k].raised
            THEN /\ coros[c].exc = <<LoginFailed>>
                 /\ Stored(c).status = "PENDING"
                 /\ StartedPublished(c) = {}
            ELSE /\ Stored(c).status \in {"RUNNING", "COMPLETED"}
                 /\ Cardinality(StartedPublished(c)) = 1
                 /\ \A n \in StartedPublished(c) : n < k)
    /\ [][\A c \in CoroutineIds :
            (c <= Len(log) /\ StartedPublished(c) = {} /\ StartedPublished(c)' # {}) =>
                /\ Stored(c).status = "RUNNING"
                /\ Stored(c).events = <<>>
                /\ CreatedHandled(c) = {}]_vars

\* C21 witness: the handler has returned for a job of two tasks, which its commit
\* carried through to Completed.
C21_Witness ==
    \E c \in CoroutineIds :
        /\ \E k \in CreatedHandled(c) : ~log[c][k].raised
        /\ Command(c).tasks = 2
        /\ Stored(c).status = "COMPLETED"

\* The positions in log[c] where SearchJobStartedHandler returned.
StartedHandled(c) ==
    {k \in 1..Len(log[c]) :
        IsReturn(log[c][k]) /\ log[c][k].h = "SearchJobStartedHandler" /\ ~log[c][k].raised}

\* The ExecuteSearchTaskCommands for which coroutine c has invoked a handler, in order.
ExecutesDispatched(c) ==
    SelectSeq(log[c], LAMBDA x : IsInvoke(x) /\ x.msg.type = "ExecuteSearchTaskCommand")

\* C22: once SearchJobStartedHandler has returned, one ExecuteSearchTaskCommand per
\* task of the stored job has been dispatched, in the order of the task list, each
\* with the job's id and its task's id; and no step of the handler itself changes a
\* stored job (its status, its tasks) or the repository.
C22_OneExecutePerTaskInOrder ==
    /\ [](\A c \in CoroutineIds :
            StartedHandled(c) # {} =>
                /\ Len(ExecutesDispatched(c)) = Len(Stored(c).tasks)
                /\ \A i \in 1..Len(Stored(c).tasks) :
                      ExecutesDispatched(c)[i].msg =
                          ExecuteSearchTaskCommand(Command(c).job_id, Stored(c).tasks[i].task_id))
    /\ [][\A c \in CoroutineIds :
            (coros[c].stack # <<>> /\ coros'[c] # coros[c]
                /\ coros[c].stack[Len(coros[c].stack)].h = "SearchJobStartedHandler") =>
                /\ heap' = heap
                /\ store' = store]_vars

\* C22 witness: the handler has returned for a job of two tasks.
C22_Witness ==
    \E c \in CoroutineIds :
        /\ StartedHandled(c) # {}
        /\ Len(Stored(c).tasks) = 2
        /\ Len(ExecutesDispatched(c)) = 2

\* C30: with every command carrying a job id of its own and every message delivered
\* once, a SearchJobCreatedHandler about to call start() holds a Pending job, and no
\* dispatch ever carries the error start() raises on a job that is not Pending.
C30_StartOnlyOnPending ==
    \A c \in CoroutineIds :
        /\ coros[c].exc # <<AlreadyStarted>>
        /\ \A k \in 1..Len(coros[c].stack) :
              LET f == coros[c].stack[k] IN
              (f.h = "SearchJobCreatedHandler" /\ f.pc = "prepare") =>
                  heap[f.ref].status = "PENDING"

\* C30 witness: two commands were dispatched, and the job of each was started by its
\* SearchJobCreatedHandler.
C30_Witness ==
    /\ Len(coros) = 2
    /\ \A c \in CoroutineIds :
          /\ Done(c)
          /\ \E k \in CreatedHandled(c) : ~log[c][k].raised
          /\ Stored(c).status # "PENDING"

\* C28: when the handler registered for a dispatched command raises, the dispatch
\* ends with the very error the handler raised; and a dispatch ends with the
\* no-handler error only when a command was dispatched whose type has no handler.
C28_HandlerErrorPropagatesUnchanged ==
    \A c \in CoroutineIds :
        Done(c) =>
            /\ (IsCommand(Command(c)) /\ command_handlers[Command(c).type] # <<>>) =>
                  /\ Len(ReturnedFrom(c)) = 1
                  /\ coros[c].exc = ReturnedFrom(c)[1].exc
            /\ coros[c].exc = <<NoHandlerFound>> =>
                  \/ IsCommand(Command(c)) /\ command_handlers[Command(c).type] = <<>>
                  \/ command_handlers["ExecuteSearchTaskCommand"] = <<>>

\* ------------------------------ application/handlers.py GetJobResultQueryHandler
\* A TaskResultDTO that leaves out what the task's result holds.
TaskResultWithoutResult(task) ==
    [keyword |-> task.keyword.text, status |-> TaskStatusValue(task.status),
     found_post_urls |-> <<>>, screenshot_path |-> <<>>,
     error_message |-> task.error_message]

\* TaskResultDTO(...) as handle builds it for one task: the URLs of the found posts
\* and the screenshot's path come from the result, when there is one.
TaskResult(task) ==
    [keyword |-> task.keyword.text,
     status |-> TaskStatusValue(task.status),
     found_post_urls |-> IF task.result # <<>> THEN task.result[1].found_posts ELSE <<>>,
     screenshot_path |-> IF task.result # <<>> /\ task.result[1].screenshot # <<>>
                         THEN task.result[1].screenshot ELSE <<>>,
     error_message |-> task.error_message]

\* GetJobResultQueryHandler.handle: get the job in the scope of the unit of work,
\* return None without one, else the JobResultDTO; commit is not called.
GetJobResultQueryHandle(w, job_id) ==
    LET got == RepositoryGet(w, job_id) IN
    IF got.ref = 0 THEN [w |-> got.w, result |-> <<>>]
    ELSE LET j == got.w.heap[got.ref] IN
         [w |-> got.w,
          result |-> <<[job_id |-> j.job_id, status |-> JobStatusValue(j.status),
                        tasks |-> [i \in 1..Len(j.tasks) |-> TaskResult(j.tasks[i])]]>>]

\* The window asks for the result of a job while the event loop is free.
GetJobResult ==
    /\ running = 0
    /\ nops < MaxOps
    /\ \E job_id \in 1..MaxJobs :
        LET r == GetJobResultQueryHandle(World, job_id) IN
        /\ lastOp' = [op |-> "get_job_result", job_id |-> job_id, result |-> r.result]
        /\ heap' = r.w.heap
        /\ store' = r.w.store
        /\ seen' = r.w.seen
        /\ nextTaskId' = r.w.nextTaskId
    /\ nops' = nops + 1
    /\ UNCHANGED <<db, queue, job, prevJob, pulled, uow, event_handlers, command_handlers, coros,
                   running, yieldAll, submitted, log>>

NextQuery ==
    \/ Next
    \/ GetJobResult

SpecQuery == Init /\ [][NextQuery]_vars

\* The projection of job j the claim describes, spelled out field by field.
Projects(r, j) ==
    /\ r.job_id = j.job_id
    /\ r.status = JobStatusValue(j.status)
    /\ Len(r.tasks) = Len(j.tasks)
    /\ \A i \in 1..Len(j.tasks) :
        LET t == j.tasks[i] IN
        /\ r.tasks[i].keyword = t.keyword.text
        /\ r.tasks[i].status = TaskStatusValue(t.status)
        /\ r.tasks[i].found_post_urls =
               (IF t.result = <<>> THEN <<>> ELSE t.result[1].found_posts)
        /\ r.tasks[i].screenshot_path =
               (IF t.result = <<>> THEN <<>> ELSE t.result[1].screenshot)
        /\ r.tasks[i].error_message = t.error_message

\* C23: the job-result query returns None for an id the repository does not know and
\* otherwise a projection with the job's status and, per task in task-list order, the
\* keyword, status, matched URLs (none without a result), screenshot path and error
\* message; it changes no job or task and publishes no event.
C23_QueryProjectsStoredJob ==
    [][nops' # nops =>
        IF store[lastOp'.job_id] = 0
        THEN lastOp'.result = <<>> /\ heap' = heap /\ store' = store
             /\ coros' = coros /\ log' = log
        ELSE /\ Len(lastOp'.result) = 1
             /\ Projects(lastOp'.result[1], heap[store[lastOp'.job_id]])
             /\ heap' = heap /\ store' = store /\ coros' = coros /\ log' = log]_vars

\* A query answered with a job one of whose tasks has matched URLs and another an
\* error message.
C23_Witness ==
    /\ lastOp.op = "get_job_result"
    /\ lastOp.result # <<>>
    /\ \E i \in 1..Len(lastOp.result[1].tasks) :
        lastOp.result[1].tasks[i].found_post_urls # <<>>
    /\ \E i \in 1..Len(lastOp.result[1].tasks) :
        lastOp.result[1].tasks[i].error_message # <<>>

\* ----------------------- infrastructure/persistence/repositories.py, orm.py
\* The methods a class body defines.
Defines(cls) ==
    CASE cls = "SearchJobRepository" -> {"__init__", "add", "get", "_add", "_get"}
      [] cls = "SqliteSearchJobRepository" ->
            {"__init__", "save", "get", "_prepare_for_persistence",
             "_reconstitute_from_persistence"}

\* The methods SearchJobRepository declares with @abstractmethod.
Abstract == {"_add", "_get"}

\* cls.__abstractmethods__ of a subclass of SearchJobRepository: what the base
\* declares abstract and the subclass does not define.
AbstractMethods(cls) == Abstract \ Defines(cls)

\* TypeError of ABCMeta: a class with abstract methods left cannot be instantiated.
CannotInstantiate ==
    [cls |-> "TypeError", args |-> <<"Can't instantiate abstract class">>]

\* json.dumps of a list of strings, as the tokens of its text, and json.loads of it.
JsonDumps(urls) ==
    <<"[">> \o [k \in 1..(IF urls = <<>> THEN 0 ELSE 2 * Len(urls) - 1) |->
                    IF k % 2 = 1 THEN urls[(k + 1) \div 2] ELSE ","] \o <<"]">>
JsonLoads(text) ==
    [k \in 1..((Len(text) - 1) \div 2) |-> text[2 * k]]

\* _prepare_for_persistence for one task, with the columns orm.py maps: the value
\* objects as primitive values, the result's columns NULL without a result.
TaskRow(task) ==
    [task_id |-> task.task_id, status |-> task.status,
     keyword_text |-> task.keyword.text,
     posts_to_find_json |-> JsonDumps(task.blog_posts_to_find),
     found_posts_json |-> IF task.result # <<>>
                          THEN <<JsonDumps(task.result[1].found_posts)>> ELSE <<>>,
     screenshot_path_str |-> IF task.result # <<>> THEN task.result[1].screenshot ELSE <<>>]

\* _reconstitute_from_persistence for one loaded task: error_message is no column,
\* so the loaded object has the class default None.
TaskOfRow(row) ==
    [task_id |-> row.task_id, keyword |-> Keyword(row.keyword_text),
     blog_posts_to_find |-> JsonLoads(row.posts_to_find_json),
     status |-> row.status,
     result |-> IF row.found_posts_json # <<>>
                THEN <<[found_posts |-> JsonLoads(row.found_posts_json[1]),
                        screenshot |-> row.screenshot_path_str]>>
                ELSE <<>>,
     error_message |-> <<>>]

\* SqliteSearchJobRepository(session) followed by save(search_job): merge and commit
\* write the job's row and its tasks' rows.
SqliteSave(rows, j) ==
    IF AbstractMethods("SqliteSearchJobRepository") # {}
    THEN [db |-> rows, raised |-> <<CannotInstantiate>>]
    ELSE [db |-> [rows EXCEPT ![j.job_id] =
                    <<[job_id |-> j.job_id, status |-> j.status,
                       tasks |-> [i \in 1..Len(j.tasks) |-> TaskRow(j.tasks[i])]]>>],
          raised |-> <<>>]

\* SqliteSearchJobRepository(new_session) followed by get(job_id): the job of the
\* row with its tasks reconstituted, None without a row.
SqliteGet(rows, job_id) ==
    IF AbstractMethods("SqliteSearchJobRepository") # {}
    THEN [result |-> <<>>, raised |-> <<CannotInstantiate>>]
    ELSE IF rows[job_id] = <<>> THEN [result |-> <<>>, raised |-> <<>>]
    ELSE LET row == rows[job_id][1] IN
         [result |-> <<[job_id |-> row.job_id, status |-> row.status,
                        tasks |-> [i \in 1..Len(row.tasks) |-> TaskOfRow(row.tasks[i])],
                        events |-> <<>>]>>,
          raised |-> <<>>]

\* The keywords, target URL lists and results of the tasks that are persisted.
MaxKeywords == 2
PostLists == {<<>>, <<"url1">>, <<"url1", "url2">>}
PersistedResults ==
    {<<>>} \cup {<<r>> : r \in SearchResults}
           \cup {<<[found_posts |-> <<"url1", "url2">>, screenshot |-> <<>>]>>}

\* A task as update_task_result leaves it, or a new one.
PersistedTask(task_id, text, posts, result) ==
    IF result = <<>>
    THEN [SearchTask(task_id) EXCEPT !.keyword = Keyword(text), !.blog_posts_to_find = posts]
    ELSE UpdateResult([SearchTask(task_id) EXCEPT !.keyword = Keyword(text),
                                                  !.blog_posts_to_find = posts],
                      result[1])

PersistedTaskLists ==
    {<<>>}
    \cup {<<PersistedTask(1, kw, posts, r)>> :
            kw \in 1..MaxKeywords, posts \in PostLists, r \in PersistedResults}
    \cup {<<PersistedTask(1, 1, <<"url1">>, r1), PersistedTask(2, kw, posts, r2)>> :
            kw \in 1..MaxKeywords, posts \in PostLists,
            r1 \in PersistedResults, r2 \in PersistedResults}

InitPersist ==
    /\ \E tasks \in PersistedTaskLists : job = [SearchJobCreate(1, <<>>) EXCEPT !.tasks = tasks]
    /\ prevJob = job
    /\ lastOp = [op |-> "create", task_id |-> 0, raised |-> FALSE]
    /\ pulled = <<>>
    /\ nops = 0
    /\ db = [id \in 1..MaxJobs |-> <<>>]
    /\ queue = <<>>
    /\ uow = ScopeEntered
    /\ heap = <<>>
    /\ store = [id \in 1..MaxJobs |-> 0]
    /\ event_handlers = Bootstrapped
    /\ command_handlers = BootstrappedCommands
    /\ seen = <<>>
    /\ nextTaskId = 1
    /\ coros = <<>>
    /\ running = 0
    /\ yieldAll = FALSE
    /\ submitted = <<>>
    /\ log = <<>>

\* repo = SqliteSearchJobRepository(session); await repo.save(job); session.close()
Save ==
    /\ nops < MaxOps
    /\ LET r == SqliteSave(db, job) IN
        /\ db' = r.db
        /\ lastOp' = [op |-> "save", job_id |-> job.job_id, raised |-> r.raised, result |-> <<>>]
    /\ nops' = nops + 1
    /\ UNCHANGED <<job, prevJob, pulled, uow, queue, busVars>>

\* new_repo = SqliteSearchJobRepository(new_session); await new_repo.get(job_id)
Load ==
    /\ nops < MaxOps
    /\ \E job_id \in 1..MaxJobs :
        LET r == SqliteGet(db, job_id) IN
        lastOp' = [op |-> "get", job_id |-> job_id, raised |-> r.raised, result |-> r.result]
    /\ nops' = nops + 1
    /\ UNCHANGED <<job, prevJob, pulled, uow, db, queue, busVars>>

NextPersist ==
    \/ Save
    \/ Load

SpecPersist == InitPersist /\ [][NextPersist]_vars

\* What the claim compares between the saved job and the loaded one.
SameAsSaved(loaded, j) ==
    /\ loaded.job_id = j.job_id
    /\ Len(loaded.tasks) = Len(j.tasks)
    /\ \A i \in 1..Len(j.tasks) :
        /\ loaded.tasks[i].keyword.text = j.tasks[i].keyword.text
        /\ loaded.tasks[i].blog_posts_to_find = j.tasks[i].blog_posts_to_find
        /\ j.tasks[i].result # <<>> =>
            /\ loaded.tasks[i].result # <<>>
            /\ loaded.tasks[i].result[1].found_posts = j.tasks[i].result[1].found_posts
            /\ loaded.tasks[i].result[1].screenshot = j.tasks[i].result[1].screenshot

\* C24: a SearchJob can be saved through the durable repository, and loading it by
\* id in a new session then returns a job with the same id, as many tasks and, per
\* task, the same keyword text, target URLs and, with a result recorded, the same
\* matched URLs and screenshot path.
C24_SavedJobLoadsBack ==
    /\ lastOp.op = "save" => lastOp.raised = <<>> /\ db[job.job_id] # <<>>
    /\ (lastOp.op = "get" /\ lastOp.job_id = job.job_id /\ db[job.job_id] # <<>>) =>
        /\ lastOp.raised = <<>>
        /\ lastOp.result # <<>>
        /\ SameAsSaved(lastOp.result[1], job)

\* --------------- tests/unit/application/test_entire_message_process.py (queue bus)
\* FakeQueueMessageBus.run_once: `raise ValueError(f"No handler for ...")`
NoHandlerFor == [cls |-> "ValueError", args |-> <<"No handler for">>]

\* FakeQueueMessageBus.run_once for the message taken from the queue: the handler of
\* a command type that has one, else every subscriber of an event type that has
\* some, in order, else the error.
RunOnceHandle(f, w) ==
    IF IsCommand(f.msg) /\ w.command_handlers[f.msg.type] # <<>>
    THEN IF f.i = 1
         THEN [Call([f EXCEPT !.i = 2], "begin",
                    Frame(w.command_handlers[f.msg.type][1], f.msg), w)
                 EXCEPT !.log = <<[kind |-> "invoke",
                                   h |-> w.command_handlers[f.msg.type][1],
                                   msg |-> f.msg]>>]
         ELSE [Return(f, w) EXCEPT !.log = <<>>]
    ELSE IF IsEvent(f.msg) /\ w.event_handlers[f.msg.type] # <<>>
    THEN LET handlers == w.event_handlers[f.msg.type]
         IN  IF f.i <= Len(handlers)
             THEN [Call([f EXCEPT !.i = f.i + 1], "begin", Frame(handlers[f.i], f.msg), w)
                     EXCEPT !.log = <<[kind |-> "invoke", h |-> handlers[f.i],
                                       msg |-> f.msg]>>]
             ELSE [Return(f, w) EXCEPT !.log = <<>>]
    ELSE Raise(f, NoHandlerFor, w)

\* The first command runs on the handlers wired to an InMemoryMessageBus, the second
\* on the same handlers wired to a FakeQueueMessageBus.
UsesQueue(c) == c = 2

\* The same command is submitted to the second wiring once the first run has ended;
\* by then the first job has no event left to publish.
SubmitBoth ==
    /\ running = 0
    /\ Len(coros) < 2
    /\ Len(coros) = 1 => Done(1)
    /\ \E n \in 0..MaxTasks :
        LET command == CreateSearchCommand(Len(coros) + 1, n) IN
        /\ Len(coros) = 1 => n = submitted[1].tasks
        /\ submitted' = Append(submitted, command)
        /\ coros' = Append(coros, [stack |-> <<Frame("bus", command)>>, exc |-> <<>>])
        /\ log' = Append(log, <<>>)
    /\ UNCHANGED <<aggVars, heap, store, event_handlers, command_handlers, seen, nextTaskId,
                   running, yieldAll>>

\* FakeQueueMessageBus.handle: self.queue.append(message)
QueueHandle(c) ==
    /\ UsesQueue(c)
    /\ Ready(c, "bus")
    /\ queue' = Append(queue, Top(c).msg)
    /\ LET rest == SubSeq(coros[c].stack, 1, Len(coros[c].stack) - 1) IN
        /\ coros' = [coros EXCEPT ![c] = [stack |-> rest, exc |-> <<>>]]
        /\ running' = IF rest = <<>> THEN 0 ELSE c
    /\ UNCHANGED <<job, prevJob, lastOp, pulled, nops, uow, db, heap, store, event_handlers,
                   command_handlers, seen, nextTaskId, yieldAll, submitted, log>>

\* The driver awaits run_once while the queue is not empty: popleft, then the
\* handlers of the message.
RunOnce(c) ==
    /\ UsesQueue(c)
    /\ \/ /\ c \in CoroutineIds
          /\ Done(c)
          /\ running = 0
          /\ queue # <<>>
          /\ queue' = Tail(queue)
          /\ coros' = [coros EXCEPT ![c] = [stack |-> <<Frame("run_once", Head(queue))>>,
                                            exc |-> <<>>]]
          /\ running' = c
          /\ UNCHANGED <<job, prevJob, lastOp, pulled, nops, uow, db, heap, store,
                         event_handlers, command_handlers, seen, nextTaskId, yieldAll,
                         submitted, log>>
       \/ /\ Ready(c, "run_once")
          /\ Apply(c, RunOnceHandle(Top(c), World))

NextBoth ==
    \/ SubmitBoth
    \/ \E c \in CoroutineIds : ~UsesQueue(c) /\ Bus(c)
    \/ \E c \in CoroutineIds : QueueHandle(c)
    \/ \E c \in CoroutineIds : RunOnce(c)
    \/ \E c \in CoroutineIds : Commit(c)
    \/ \E c \in CoroutineIds : CreateSearch(c)
    \/ \E c \in CoroutineIds : SearchJobCreated(c)
    \/ \E c \in CoroutineIds : SearchJobStarted(c)
    \/ \E c \in CoroutineIds : ExecuteSearchTask(c)
    \/ \E c \in CoroutineIds : TaskCompleted(c)
    \/ \E c \in CoroutineIds : JobCompleted(c)
    \/ \E c \in CoroutineIds : Unwind(c)

SpecBoth == Init /\ [][NextBoth]_vars

\* The run of command c has ended: its dispatch returned and, on the queue bus, the
\* queue is drained.
Ended(c) == c \in CoroutineIds /\ Done(c) /\ (UsesQueue(c) => queue = <<>>)

\* The login of prepare_platforms failed in run c.
LoginFailedIn(c) ==
    \E k \in 1..Len(log[c]) :
        log[c][k].kind = "return" /\ log[c][k].raised /\ log[c][k].exc = <<LoginFailed>>

\* The outcomes of the capability calls made for the i-th task of run c.
OutcomesFor(c, i) ==
    {log[c][k].outcome : k \in Entries(c, "capability", Stored(c).tasks[i].task_id)}

\* An event without the ids that differ between the runs: its type, its status and
\* the position of its task in the job.
WithoutIds(c, m) ==
    [type |-> m.type, status |-> m.status,
     task |-> IF m.task_id = 0 THEN 0 ELSE FindTaskById(Stored(c), m.task_id)]

\* The positions in log[c] where a handler was invoked with an event.
Deliveries(c) == {k \in 1..Len(log[c]) : IsInvoke(log[c][k]) /\ IsEvent(log[c][k].msg)}

\* How often event e (without ids) was published in run c; every event type has one
\* subscriber, so each published event is delivered once.
TimesPublished(c, e) ==
    Cardinality({k \in Deliveries(c) : WithoutIds(c, log[c][k].msg) = e})

SameInputs ==
    /\ Command(1).tasks = Command(2).tasks
    /\ LoginFailedIn(1) <=> LoginFailedIn(2)
    /\ \A i \in 1..Len(Stored(1).tasks) : OutcomesFor(1, i) = OutcomesFor(2, i)

SameOutcome ==
    /\ Stored(1).status = Stored(2).status
    /\ Len(Stored(1).tasks) = Len(Stored(2).tasks)
    /\ \A i \in 1..Len(Stored(1).tasks) :
        Stored(1).tasks[i].status = Stored(2).tasks[i].status
    /\ \A c \in 1..2 : \A k \in Deliveries(c) :
        LET e == WithoutIds(c, log[c][k].msg) IN
        TimesPublished(1, e) = TimesPublished(2, e)

\* C25: the same CreateSearchCommand with the same capability outcomes, run through
\* the synchronous-recursive bus and through the queue bus drained until empty, ends
\* with the same stored job status, the same status per task and the same multiset
\* of published events.
C25_BusesInterchangeable ==
    (Ended(1) /\ Ended(2)) =>
        /\ store[1] # 0
        /\ store[2] # 0
        /\ Len(Stored(1).tasks) = Len(Stored(2).tasks)
        /\ SameInputs => SameOutcome

\* Both runs ended for a job with two tasks and the same outcomes, one task Found
\* and the other Error, the job Completed.
C25_Witness ==
    /\ Ended(1)
    /\ Ended(2)
    /\ Command(1).tasks = 2
    /\ SameInputs
    /\ Stored(2).status = "COMPLETED"
    /\ Stored(2).tasks[1].status = "FOUND"
    /\ Stored(2).tasks[2].status = "ERROR"
    /\ TimesPublished(2, [type |-> "JobCompleted", status |-> "", task |-> 0]) = 1

\* ------------------------------ infrastructure/uow.py __aexit__, rollback
\* An __aexit__ that returns a true value, which makes `async with` swallow the error.
AExitReturnsTrue == TRUE

\* What __aexit__ returns: nothing, so an error that left the scope is raised again.
AExitReturns == FALSE

\* The error commit raised: that of the dispatch, or that of session.commit().
CommitError(u) ==
    LET last == u.trace[Len(u.trace)] IN
    IF last.kind = "dispatch" THEN last.exc[1]
    ELSE [cls |-> "OperationalError", args |-> <<"commit failed">>]

\* Whether session.commit() has written this scope's changes.
SessionCommitted(u) ==
    \E k \in 1..Len(u.trace) : u.trace[k].kind = "store_commit" /\ u.trace[k].ok

\* session.rollback(): what was not committed is dropped from the session, and a
\* modified job of the database reads its row again (every row of a job that is
\* dirty holds Pending: start is the modification); events is no column and stays.
Rollback(u, h) ==
    [uow |-> [u EXCEPT !.new = {}, !.dirty = {},
                       !.trace = Append(@, [kind |-> "rollback", ok |-> TRUE,
                                            event |-> <<>>, exc |-> <<>>])],
     heap |-> [r \in 1..Len(h) |->
                  IF r \in u.dirty /\ ~SessionCommitted(u)
                  THEN [h[r] EXCEPT !.status = "PENDING"] ELSE h[r]]]

\* __aexit__(exc_type, ...): rollback when the scope is left by an error, then
\* session.close().
AExit(u, h, exc) ==
    LET r == IF exc # <<>> THEN Rollback(u, h) ELSE [uow |-> u, heap |-> h] IN
    [uow |-> [r.uow EXCEPT !.pc = "closed", !.new = {}, !.dirty = {}],
     heap |-> r.heap,
     raised |-> IF exc # <<>> /\ ~AExitReturns THEN exc ELSE <<>>]

\* The errors that can leave the scope: the one commit raised, or the one start()
\* raises in the body for a job that is not Pending; none when the body and commit
\* return.
ScopeErrors ==
    IF uow.pc = "raised" THEN {<<CommitError(uow)>>}
    ELSE IF uow.pc = "open"
    THEN {<<>>} \cup {<<AlreadyStarted>> : k \in {i \in 1..Len(seen) : StartRaises(heap[seen[i]])}}
    ELSE {<<>>}

\* The `async with self.uow:` block is left.
UowExit ==
    /\ uow.pc \in {"open", "raised", "returned"}
    /\ \E exc \in ScopeErrors :
        LET r == AExit(uow, heap, exc) IN
        /\ uow' = r.uow
        /\ heap' = r.heap
        /\ lastOp' = [op |-> "exit", committed |-> uow.pc # "open", exc |-> exc,
                      raised |-> r.raised]
    /\ UNCHANGED <<db, queue, job, prevJob, pulled, nops, store, event_handlers,
                   command_handlers, seen, nextTaskId, coros, running, yieldAll, submitted, log>>

NextScope ==
    \/ NextUow
    \/ UowExit

SpecScope == InitUow /\ [][NextScope]_vars

\* The entries of one kind in the scope's trace.
Traced(kind) == {k \in 1..Len(uow.trace) : uow.trace[k].kind = kind}

\* C29: a unit-of-work scope that is left by an error invokes rollback and raises
\* the error again to the caller, and a scope that is left normally without commit()
\* having been called publishes no event.
C29_ErrorRollsBackAndNoImplicitCommit ==
    uow.pc = "closed" =>
        /\ lastOp.exc # <<>> =>
            /\ Traced("rollback") # {}
            /\ lastOp.raised = lastOp.exc
        /\ (lastOp.exc = <<>> /\ ~lastOp.committed) =>
            /\ Traced("dispatch") = {}
            /\ Traced("store_commit") = {}
            /\ Traced("rollback") = {}
            /\ lastOp.raised = <<>>

\* A scope left by the error of start() with a started job in it, rolled back.
C29_Witness ==
    /\ uow.pc = "closed"
    /\ lastOp.exc = <<AlreadyStarted>>
    /\ Traced("rollback") # {}
    /\ \E r \in 1..Len(heap) : heap[r].events # <<>>

\* A scope left normally without commit while a job in it holds pending events.
C29_WitnessNoCommit ==
    /\ uow.pc = "closed"
    /\ lastOp.exc = <<>>
    /\ ~lastOp.committed
    /\ \E r \in 1..Len(heap) : heap[r].events # <<>>

\* How often event e occurs in a list of events.
Occurrences(events, e) == Cardinality({k \in 1..Len(events) : events[k] = e})

\* C31: every event a mutating method appended to the pending list of a job of the
\* scope is dispatched through the bus exactly once when the scope commits: once the
\* store commit has succeeded and commit has ended, each of them was dispatched once
\* and none is left pending on its job.
C31_PendingEventsDispatchedOnce ==
    (uow.pc \in {"returned", "raised"} /\ StoreCommitted) =>
        \A k \in 1..Len(seen) :
            /\ \A n \in 1..Len(uow.before[seen[k]].events) :
                Occurrences(Dispatched(uow.trace), uow.before[seen[k]].events[n]) = 1
            /\ heap[seen[k]].events = <<>>

\* C32: when the capability call for a task returned a SearchResult, the task ends
\* Found or NotFound according to that result, whatever a subscriber of the events
\* published afterwards raises.
C32_ReturnedResultIsKept ==
    \A c \in CoroutineIds :
        \A k \in 1..Len(log[c]) :
            (Done(c) /\ IsCapability(log[c][k]) /\ log[c][k].outcome.kind = "returned") =>
                StoredTaskStatus(World, log[c][k].msg) =
                    <<IF log[c][k].outcome.result[1].found_posts = <<>>
                      THEN "NOT_FOUND" ELSE "FOUND">>

\* C33: in a pipeline run at most one TaskCompleted event is published per task, so
\* the window's subscriber is never invoked with more TaskCompleted events of a job
\* than the job has tasks.
C33_OneTaskCompletedPerTask ==
    \A c \in CoroutineIds :
        /\ \A t \in 1..MaxTotalTasks :
            Cardinality({k \in TaskCompletedOf(c, t) :
                            log[c][k].h = "TaskCompletedHandler"}) <= 1
        /\ store[Command(c).job_id] # 0 =>
            Cardinality({k \in 1..Len(log[c]) :
                            /\ IsInvoke(log[c][k])
                            /\ log[c][k].h = "FunctionHandler"
                            /\ log[c][k].msg.type = "TaskCompleted"}) <= Len(Stored(c).tasks)

\* C34: in every reachable state each task is consistent: Pending with neither result
\* nor error message; Found or NotFound with a result (matched posts exactly when
\* Found) and no error message; Error with an error message and no result.
C34_TaskFieldsConsistent ==
    \A r \in 1..Len(heap) :
        \A i \in 1..Len(heap[r].tasks) :
            LET t == heap[r].tasks[i] IN
            CASE t.status = "PENDING" -> t.result = <<>> /\ t.error_message = <<>>
              [] t.status = "FOUND" ->
                    t.result # <<>> /\ t.error_message = <<>>
                    /\ (IF t.result = <<>> THEN FALSE ELSE t.result[1].found_posts # <<>>)
              [] t.status = "NOT_FOUND" ->
                    t.result # <<>> /\ t.error_message = <<>>
                    /\ (IF t.result = <<>> THEN FALSE ELSE t.result[1].found_posts = <<>>)
              [] t.status = "ERROR" -> t.result = <<>> /\ t.error_message # <<>>

\* C35: the window's subscriber, subscribed to TaskCompleted and JobCompleted after
\* the core handlers, is invoked with every TaskCompleted of a job before it is
\* invoked with the job's JobCompleted: after that invocation it is invoked with no
\* TaskCompleted of the job.
C35_ObserverSeesTasksBeforeJob ==
    \A c \in CoroutineIds :
        \A k \in 1..Len(log[c]) : \A n \in 1..Len(log[c]) :
            ~ /\ k < n
              /\ IsInvoke(log[c][k])
              /\ IsInvoke(log[c][n])
              /\ log[c][k].h = "FunctionHandler"
              /\ log[c][n].h = "FunctionHandler"
              /\ log[c][k].msg.type = "JobCompleted"
              /\ log[c][n].msg.type = "TaskCompleted"
              /\ log[c][k].msg.job_id = log[c][n].msg.job_id

\* The positions before k in log[c] where handler h was invoked with the
\* TaskCompleted of task t.
CompletedSeenBefore(c, k, h, t) ==
    {n \in TaskCompletedOf(c, t) : n < k /\ log[c][n].h = h}

\* The positions in log[c] where the window's subscriber was invoked with JobCompleted.
ObservedJobCompleted(c) ==
    {k \in 1..Len(log[c]) :
        /\ IsInvoke(log[c][k])
        /\ log[c][k].h = "FunctionHandler"
        /\ log[c][k].msg.type = "JobCompleted"}

\* C35 as amended: when the window's subscriber is invoked with the JobCompleted of a
\* job, TaskCompletedHandler has been invoked with a TaskCompleted of every task of
\* the job, and the subscriber itself with a TaskCompleted of every task but one: the
\* TaskCompleted whose handling completed the job reaches it after JobCompleted.
C35_ObserverSeesAllButLastBeforeJob ==
    \A c \in CoroutineIds :
        \A k \in ObservedJobCompleted(c) :
            LET tasks == heap[store[log[c][k].msg.job_id]].tasks
                ids == {tasks[i].task_id : i \in 1..Len(tasks)}
            IN  /\ \A t \in ids : CompletedSeenBefore(c, k, "TaskCompletedHandler", t) # {}
                /\ Cardinality({t \in ids :
                        CompletedSeenBefore(c, k, "FunctionHandler", t) = {}}) = 1

\* C35 witness: the subscriber was invoked with the JobCompleted of a job with two
\* tasks and, after that, with the TaskCompleted of the job's last task.
C35_Witness ==
    \E c \in CoroutineIds :
        \E k \in ObservedJobCompleted(c) :
            /\ Command(c).tasks = 2
            /\ \E n \in 1..Len(log[c]) :
                /\ k < n
                /\ IsInvoke(log[c][n])
                /\ log[c][n].h = "FunctionHandler"
                /\ log[c][n].msg.type = "TaskCompleted"
                /\ CompletedSeenBefore(c, k, "FunctionHandler", log[c][n].msg.task_id) = {}


\* ------------------------------------- a job id submitted a second time
\* A caller dispatches another CreateSearchCommand carrying the job id of a command
\* dispatched before.
Resubmit ==
    /\ running = 0
    /\ Len(coros) >= 1
    /\ Len(coros) < MaxDispatch
    /\ \E k \in 1..Len(submitted) : \E n \in 0..MaxTasks :
        LET command == CreateSearchCommand(submitted[k].job_id, n) IN
        /\ TotalTasks(submitted) + n <= MaxTotalTasks
        /\ submitted' = Append(submitted, command)
        /\ coros' = Append(coros, [stack |-> <<Frame("bus", command)>>, exc |-> <<>>])
        /\ log' = Append(log, <<>>)
    /\ UNCHANGED <<aggVars, heap, store, event_handlers, command_handlers, seen, nextTaskId,
                   running, yieldAll>>

NextResubmit == Next \/ Resubmit

SpecResubmit == Init /\ [][NextResubmit]_vars

\* Job b is job a further along: the same tasks in the same order, every task that was
\* resolved in a unchanged in b, and a status that did not go back to Pending.
SameJobLater(a, b) ==
    /\ b.job_id = a.job_id
    /\ Len(b.tasks) = Len(a.tasks)
    /\ \A i \in 1..Len(a.tasks) :
          /\ b.tasks[i].task_id = a.tasks[i].task_id
          /\ a.tasks[i].status # "PENDING" => b.tasks[i] = a.tasks[i]
    /\ a.status # "PENDING" => b.status # "PENDING"

\* C36: once a job is stored under a job id, no step, the dispatch of another
\* CreateSearchCommand with the same job id included, replaces it: the job stored under
\* the id afterwards has the same tasks, with the statuses and results they had.
C36_StoredJobNeverReplaced ==
    [][\A id \in 1..MaxJobs :
          store[id] # 0 =>
              /\ store'[id] # 0
              /\ SameJobLater(heap[store[id]], heap'[store'[id]])]_vars


\* The c-th command was submitted with no task.
SubmittedWithoutTasks(c) ==
    IF Len(submitted) >= c THEN submitted[c].tasks = 0 ELSE FALSE

\* A handler was invoked with the JobCompleted of the c-th command's job.
JobCompletedPublished(c) ==
    IF Len(log) < c THEN FALSE
    ELSE \E k \in 1..Len(log[c]) :
            /\ IsInvoke(log[c][k])
            /\ log[c][k].msg = JobCompletedEvent(submitted[c].job_id)

\* C37: a job created by a command with no task is eventually stored as Completed,
\* with its JobCompleted published.
C37_EmptyJobEventuallyCompleted ==
    \A c \in 1..MaxJobs :
        SubmittedWithoutTasks(c) ~> (StoredCompleted(c) /\ JobCompletedPublished(c))


\* The positions in log[c] where SearchJobCreatedHandler ended by raising the error of
\* a failed login.
PreparationFailed(c) ==
    {k \in CreatedHandled(c) : log[c][k].raised /\ log[c][k].exc = <<LoginFailed>>}

\* C38: when the preparation of the platforms raised inside SearchJobCreatedHandler,
\* the job is stored Pending with nothing pending to publish, no SearchJobStarted has
\* been published, no command for a task of the job was dispatched and the capability
\* was not called, every task is as it was created, and the error is the one the
\* dispatch carries to its caller.
C38_FailedPreparationLeavesJobPending ==
    \A c \in CoroutineIds :
        PreparationFailed(c) # {} =>
            /\ Stored(c).status = "PENDING"
            /\ Stored(c).events = <<>>
            /\ StartedPublished(c) = {}
            /\ \A n \in 1..Len(log[c]) :
                  /\ log[c][n].kind # "capability"
                  /\ log[c][n].msg.type # "ExecuteSearchTaskCommand"
            /\ \A i \in 1..Len(Stored(c).tasks) :
                  /\ Stored(c).tasks[i].status = "PENDING"
                  /\ Stored(c).tasks[i].result = <<>>
                  /\ Stored(c).tasks[i].error_message = <<>>
            /\ coros[c].exc = <<LoginFailed>>

\* C38 witness: the dispatch of a command with one task has ended with the error of
\* the failed login, after the dispatch of another command completed its job.
C38_Witness ==
    \E c \in CoroutineIds : \E d \in CoroutineIds :
        /\ PreparationFailed(c) # {}
        /\ Done(c)
        /\ Len(Stored(c).tasks) = 1
        /\ d # c
        /\ StoredCompleted(d)
        /\ Command(d).tasks = 1


\* ------------------------------- SearchJobCreated delivered a second time
\* A caller dispatches the SearchJobCreated of the started job of InitConc again.
Redeliver ==
    /\ running = 0
    /\ Len(coros) < MaxDispatch
    /\ submitted' = Append(submitted, SearchJobCreatedEvent(1))
    /\ coros' = Append(coros, [stack |-> <<Frame("bus", SearchJobCreatedEvent(1))>>,
                               exc |-> <<>>])
    /\ log' = Append(log, <<>>)
    /\ UNCHANGED <<aggVars, heap, store, event_handlers, command_handlers, seen, nextTaskId,
                   running, yieldAll>>

\* The started job of InitConc, the commands of its tasks and its SearchJobCreated
\* once more, each dispatched in a coroutine of its own.
NextRedeliver ==
    \/ Dispatch
    \/ Redeliver
    \/ \E c \in CoroutineIds : Bus(c)
    \/ \E c \in CoroutineIds : Commit(c)
    \/ \E c \in CoroutineIds : SearchJobCreated(c)
    \/ \E c \in CoroutineIds : ExecuteSearchTask(c)
    \/ \E c \in CoroutineIds : TaskCompleted(c)
    \/ \E c \in CoroutineIds : JobCompleted(c)
    \/ \E c \in CoroutineIds : Unwind(c)

SpecRedeliver == InitConc /\ [][NextRedeliver]_vars

\* Coroutine c dispatches the SearchJobCreated delivered again.
Redelivery(c) == Command(c) = SearchJobCreatedEvent(1)

\* No handler was invoked in coroutine c with a SearchJobStarted.
NoSearchJobStarted(c) ==
    \A n \in 1..Len(log[c]) : log[c][n].msg.type # "SearchJobStarted"

\* The step is one of coroutine c and leaves the stored jobs as they are.
LeavesJobsAlone(c) ==
    (c <= Len(coros) /\ coros'[c] # coros[c]) => (heap' = heap /\ store' = store)

\* C39 as stated: when SearchJobCreatedHandler has handled a SearchJobCreated delivered
\* again for a job that is Running or Completed, it has returned without raising and no
\* SearchJobStarted has been published; the dispatch changes no stored job.
C39_RedeliveryReturns ==
    /\ [](\A c \in CoroutineIds :
            Redelivery(c) =>
                /\ \A k \in CreatedHandled(c) : ~log[c][k].raised
                /\ NoSearchJobStarted(c))
    /\ [][\A c \in CoroutineIds : Redelivery(c) => LeavesJobsAlone(c)]_vars

\* C39 as amended: SearchJobCreatedHandler ends by raising, with the error of start()
\* on a job that is not Pending, or with the error of a failed login when the
\* preparation of the platforms fails first, and the dispatch ends with that error; no
\* SearchJobStarted is published, and no step of the dispatch changes a stored job:
\* status, tasks and pending events are as they were.
C39_RedeliveryRaisesAndChangesNothing ==
    /\ [](\A c \in CoroutineIds :
            Redelivery(c) =>
                /\ \A k \in CreatedHandled(c) :
                      /\ log[c][k].raised
                      /\ log[c][k].exc \in {<<AlreadyStarted>>, <<LoginFailed>>}
                      /\ coros[c].exc = log[c][k].exc
                /\ Done(c) => CreatedHandled(c) # {}
                /\ NoSearchJobStarted(c))
    /\ [][\A c \in CoroutineIds : Redelivery(c) => LeavesJobsAlone(c)]_vars

\* C39 witness: the dispatch of the SearchJobCreated delivered again has ended with
\* the error of start(), the job being Completed by then.
C39_Witness ==
    \E c \in CoroutineIds :
        /\ Redelivery(c)
        /\ Done(c)
        /\ coros[c].exc = <<AlreadyStarted>>
        /\ heap[1].status = "COMPLETED"

====
